---------------------------- MODULE Spec2Model ----------------------------
(***************************************************************************)
(* A model of the extension registry (PluginManager) and of the ingestion  *)
(* pipeline (IngestionWorkflow.run) of scrsit, and of the PDF parser's     *)
(* invocation of the external magic-pdf tool (PdfParser._run_magic_pdf).   *)
(*                                                                         *)
(* Also modelled: PluginManager._load_all_plugins, the StructuredContent   *)
(* tree and the segmentation of a Chunk.                                   *)
(*                                                                         *)
(* The specifications share the variables:                                 *)
(*   SpecResolver  one caller resolving plugins of one capability, call    *)
(*                 after call, on one PluginManager;                       *)
(*   SpecThreads   several threads inside PluginManager._get_instance of   *)
(*                 one shared PluginManager, interleaved statement by      *)
(*                 statement;                                              *)
(*   Spec          one IngestionWorkflow.run, stage by stage;              *)
(*   SpecInvoker   one PdfParser.parse running magic-pdf: the coroutine    *)
(*                 _run_magic_pdf, the child process, the two tasks that   *)
(*                 read its output, and an external cancellation           *)
(*                 (SpecInvokerFair adds the fairness of the event loop);  *)
(*   SpecLoader    one PluginManager._load_all_plugins over the entry      *)
(*                 points the environment declares;                        *)
(*   SpecTree      add_child, remove_child and get_content_by_catalogue    *)
(*                 on a few StructuredContent objects;                     *)
(*   SpecSegment   the chunks of one document, each split by one of the    *)
(*                 segmentation methods of Chunk.                          *)
(***************************************************************************)
EXTENDS Integers, Sequences, FiniteSets

(***************************************************************************)
(* Bounds of the model.                                                    *)
(***************************************************************************)
\* calls one caller makes in SpecResolver
MaxCalls == 2
\* threads of SpecThreads
NumThreads == 2
\* chunks a chunker returns; an embedder returns up to MaxChunks + 1 vectors
MaxChunks == 2

(***************************************************************************)
(* Names and values.                                                       *)
(***************************************************************************)
\* the keys of PLUGIN_GROUPS
Capabilities ==
    { "parsers", "chunkers", "embedders", "analyzers", "llm_providers",
      "ocr_providers", "multimodal_providers", "document_stores",
      "vector_stores", "structured_stores", "knowledge_providers",
      "reviewers", "proposal_generators" }

\* entry-point names a plugin may be registered, configured or asked for under
Names == { "n1", "n2" }

\* None or "": `if name:` and `if not default_plugin_name:` treat both alike
NoName == "<none>"

\* no instance (a missing key of self._instances[interface_cls])
NoInst == 0

\* file_type arguments: <<>> is None or "" (both fail `if file_type:`);
\* "p", "P", ".p", ".P", "..p", "." and a type no mapping names
FileTypes ==
    { <<>>, <<"p">>, <<"P">>, <<".", "p">>, <<".", "P">>, <<".", ".", "p">>,
      <<".">>, <<"x">> }
NoType == <<>>

\* what constructing a plugin can do: the constructor returns and
\* validate_config (if any) passes; the constructor raises; the constructor
\* raises a ConfigurationError, or a PluginConfigurationError;
\* validate_config raises
CtorOutcomes ==
    { "ok", "ctor_raises", "ctor_raises_config", "ctor_raises_plugin_config",
      "validate_raises" }

VARIABLES
    \* PluginManager
    settings,     \* AppSettings: attribute name -> value
    plugins,      \* self._plugins: capability -> set of registered names
    instances,    \* self._instances: capability -> name -> instance or NoInst
    nextId,       \* identity of the next object a constructor returns
    made,         \* capability -> name -> the instances plugin_class(config=...) returned
    \* the caller of SpecResolver
    client,       \* the capability the caller resolves
    ncalls,       \* calls made
    ret,          \* the last call and its outcome
    handed,       \* name -> instances that calls selecting it returned
    \* the threads of SpecThreads, each in one call of _get_instance
    tpc,          \* thread -> where it is in _get_instance
    tname,        \* thread -> the plugin_name it asked for
    tinst,        \* thread -> its local `instance`, or what it returned
    \* one IngestionWorkflow.run
    pc,           \* the stage run is at, "returned" or "raised"
    args,         \* file type of the input, save_document, save_chunks, run_analysis
    doc,          \* the local `document`
    embeddings,   \* the local `embeddings`
    analyzers,    \* the local `analyzers`
    idx,          \* position of the loops over names and analyzers
    trace,        \* the calls run made on the PluginManager and on plugins
    error,        \* the exception run raised
    \* one PdfParser.parse running magic-pdf
    script,       \* what the command does each time it is launched
    ipc,          \* where parse / _run_magic_pdf is
    process,      \* the child process
    tasks,        \* stdout_task and stderr_task
    launches,     \* processes launched so far
    pending,      \* the outcome _run_magic_pdf is leaving with
    cancels,      \* external cancellations of the coroutine so far
    timedOut,     \* whether the wait of line 238 timed out
    presult,      \* what parse returned or raised
    \* PluginManager._load_all_plugins
    eps,          \* capability -> what entry_points(group=...) does
    lpc,          \* where _load_all_plugins is
    lgroup,       \* position of the loop over PLUGIN_GROUPS
    lentry,       \* position of the loop over the entry points of a group
    \* StructuredContent objects
    parent,       \* node -> its parent, or None
    parent_id,    \* node -> its parent_id, or None
    children,     \* node -> its children list
    content,      \* node -> its content, or None
    nops,         \* add_child and remove_child calls made
    lookup,       \* the last get_content_by_catalogue call and its result
    \* Chunk objects of one document
    parents,      \* the order_index of each chunk of the document
    subs          \* order_index of a chunk -> what segmenting it returned

pmVars == << settings, plugins, instances, nextId, made >>
clientVars == << client, ncalls, ret, handed >>
threadVars == << tpc, tname, tinst >>
runVars == << pc, args, doc, embeddings, analyzers, idx, trace, error >>
invVars == << script, ipc, process, tasks, launches, pending, cancels, timedOut, presult >>
loaderVars == << eps, lpc, lgroup, lentry >>
treeVars == << parent, parent_id, children, content, nops, lookup >>
segVars == << parents, subs >>
extVars == << loaderVars, treeVars, segVars >>
vars == << pmVars, clientVars, threadVars, runVars, invVars, extVars >>

Threads == 1..NumThreads

(***************************************************************************)
(* str.lower() and str.lstrip('.') on file_type.                           *)
(***************************************************************************)
LowerChar(c) == IF c = "P" THEN "p" ELSE c

Lower(s) == [ i \in 1..Len(s) |-> LowerChar(s[i]) ]

RECURSIVE LStripDots(_)
LStripDots(s) ==
    IF s # <<>> /\ Head(s) = "." THEN LStripDots(Tail(s)) ELSE s

Normalize(file_type) == LStripDots(Lower(file_type))

(***************************************************************************)
(* AppSettings.                                                            *)
(***************************************************************************)
\* the attributes of AppSettings that name a plugin
SettingsAttrs ==
    { "default_parser", "default_chunker", "default_embedder",
      "default_llm_provider", "document_store_name", "vector_store_name",
      "structured_store_name" }

\* f"default_{plugin_type_key[:-1]}"
DefaultAttrName(c) ==
    CASE c = "parsers" -> "default_parser"
      [] c = "chunkers" -> "default_chunker"
      [] c = "embedders" -> "default_embedder"
      [] c = "analyzers" -> "default_analyzer"
      [] c = "llm_providers" -> "default_llm_provider"
      [] c = "ocr_providers" -> "default_ocr_provider"
      [] c = "multimodal_providers" -> "default_multimodal_provider"
      [] c = "document_stores" -> "default_document_store"
      [] c = "vector_stores" -> "default_vector_store"
      [] c = "structured_stores" -> "default_structured_store"
      [] c = "knowledge_providers" -> "default_knowledge_provider"
      [] c = "reviewers" -> "default_reviewer"
      [] c = "proposal_generators" -> "default_proposal_generator"

\* getattr(self.settings, attr, None)
GetAttr(attr) ==
    IF attr \in SettingsAttrs THEN settings[attr] ELSE NoName

\* the configured default name of get_plugin
DefaultPluginName(c) ==
    CASE c = "document_stores" -> settings["document_store_name"]
      [] c = "vector_stores" -> settings["vector_store_name"]
      [] c = "structured_stores" -> settings["structured_store_name"]
      [] OTHER -> GetAttr(DefaultAttrName(c))

\* self.settings.parser_mapping.get(key); a missing key gives None
MappingGet(key) ==
    IF key \in DOMAIN settings["parser_mapping"]
    THEN settings["parser_mapping"][key]
    ELSE NoName

(***************************************************************************)
(* PluginManager._get_instance, get_plugin and get_parser.  Each gives the *)
(* outcome of the call and the PluginManager's state after it:             *)
(*   kind       "ok" or the exception raised,                              *)
(*   name       the name the resolver handed to _get_instance (NoName if   *)
(*              it raised before),                                         *)
(*   inst       the instance returned (NoInst if it raised),               *)
(*   available  the names listed by a ConfigurationError of get_plugin,    *)
(*   rung       the branch of the resolver that produced the name,         *)
(*   built      whether plugin_class(config=...) ran in this call.         *)
(* `co` is what constructing the plugin does if this call constructs it.   *)
(***************************************************************************)
Outcome(kind, name, inst, rung, built, insts, id, mades) ==
    [ kind |-> kind, name |-> name, inst |-> inst, available |-> {},
      rung |-> rung, built |-> built,
      instances |-> insts, nextId |-> id, made |-> mades ]

\* self._instances[interface_cls][plugin_name] = instance
StoreInstance(c, n, inst) ==
    [ instances EXCEPT ![c][n] = inst ]

\* instance = plugin_class(config=config) returned the object nextId
Constructed(c, n) ==
    [ made EXCEPT ![c][n] = @ \cup { nextId } ]

\* Faulty variant of GetInstance: the constructed instance is returned but
\* not stored in self._instances.
GetInstance_NoCache(c, n, co) ==
    IF n \notin plugins[c]
    THEN Outcome("PluginNotFoundError", n, NoInst, "", FALSE, instances, nextId, made)
    ELSE CASE co = "ctor_raises" ->
                Outcome("PluginLoadError", n, NoInst, "", TRUE,
                        instances, nextId, made)
           [] co = "ctor_raises_config" ->
                Outcome("ConfigurationError", n, NoInst, "", TRUE,
                        instances, nextId, made)
           [] co = "ctor_raises_plugin_config" ->
                Outcome("PluginConfigurationError", n, NoInst, "", TRUE,
                        instances, nextId, made)
           [] co = "validate_raises" ->
                Outcome("PluginConfigurationError", n, NoInst, "", TRUE,
                        instances, nextId + 1, Constructed(c, n))
           [] OTHER ->
                Outcome("ok", n, nextId, "", TRUE,
                        instances, nextId + 1, Constructed(c, n))

\* Faulty variant of GetInstance: the outer except clause wraps every
\* exception, the PluginConfigurationError of validate_config included.
GetInstance_WrapsAll(c, n, co) ==
    IF instances[c][n] # NoInst
    THEN Outcome("ok", n, instances[c][n], "", FALSE, instances, nextId, made)
    ELSE IF n \notin plugins[c]
    THEN Outcome("PluginNotFoundError", n, NoInst, "", FALSE, instances, nextId, made)
    ELSE CASE co \in { "ctor_raises", "ctor_raises_config",
                       "ctor_raises_plugin_config" } ->
                Outcome("PluginLoadError", n, NoInst, "", TRUE,
                        instances, nextId, made)
           [] co = "validate_raises" ->
                Outcome("PluginLoadError", n, NoInst, "", TRUE,
                        instances, nextId + 1, Constructed(c, n))
           [] OTHER ->
                Outcome("ok", n, nextId, "", TRUE,
                        StoreInstance(c, n, nextId), nextId + 1, Constructed(c, n))

\* Faulty variant of GetInstance: the instance is stored in self._instances
\* before validate_config is called.
GetInstance_CachesRejected(c, n, co) ==
    IF instances[c][n] # NoInst
    THEN Outcome("ok", n, instances[c][n], "", FALSE, instances, nextId, made)
    ELSE IF n \notin plugins[c]
    THEN Outcome("PluginNotFoundError", n, NoInst, "", FALSE, instances, nextId, made)
    ELSE CASE co = "ctor_raises" ->
                Outcome("PluginLoadError", n, NoInst, "", TRUE,
                        instances, nextId, made)
           [] co = "ctor_raises_config" ->
                Outcome("ConfigurationError", n, NoInst, "", TRUE,
                        instances, nextId, made)
           [] co = "ctor_raises_plugin_config" ->
                Outcome("PluginConfigurationError", n, NoInst, "", TRUE,
                        instances, nextId, made)
           [] co = "validate_raises" ->
                Outcome("PluginConfigurationError", n, NoInst, "", TRUE,
                        StoreInstance(c, n, nextId), nextId + 1, Constructed(c, n))
           [] OTHER ->
                Outcome("ok", n, nextId, "", TRUE,
                        StoreInstance(c, n, nextId), nextId + 1, Constructed(c, n))

\* _get_instance: the cached instance, else PluginNotFoundError, else the
\* construction with validate_config and the store into self._instances
GetInstance(c, n, co) ==
    IF instances[c][n] # NoInst
    THEN Outcome("ok", n, instances[c][n], "", FALSE, instances, nextId, made)
    ELSE IF n \notin plugins[c]
    THEN Outcome("PluginNotFoundError", n, NoInst, "", FALSE, instances, nextId, made)
    ELSE CASE co = "ctor_raises" ->
                Outcome("PluginLoadError", n, NoInst, "", TRUE,
                        instances, nextId, made)
           [] co = "ctor_raises_config" ->
                Outcome("ConfigurationError", n, NoInst, "", TRUE,
                        instances, nextId, made)
           [] co = "ctor_raises_plugin_config" ->
                Outcome("PluginConfigurationError", n, NoInst, "", TRUE,
                        instances, nextId, made)
           [] co = "validate_raises" ->
                Outcome("PluginConfigurationError", n, NoInst, "", TRUE,
                        instances, nextId + 1, Constructed(c, n))
           [] OTHER ->
                Outcome("ok", n, nextId, "", TRUE,
                        StoreInstance(c, n, nextId), nextId + 1, Constructed(c, n))

\* list(available_plugins.keys())[0] when len(available_plugins) == 1
SoleName(c) == CHOOSE n \in plugins[c] : TRUE

\* Faulty variant of GetDefaultPlugin: the only registered plugin is taken
\* before the configured default is read.
GetDefaultPlugin_SoleFirst(c, co) ==
    IF Cardinality(plugins[c]) = 1
    THEN [ GetInstance(c, SoleName(c), co) EXCEPT !.rung = "sole" ]
    ELSE IF DefaultPluginName(c) # NoName
    THEN [ GetInstance(c, DefaultPluginName(c), co) EXCEPT !.rung = "default" ]
    ELSE [ Outcome("ConfigurationError", NoName, NoInst, "none", FALSE,
                   instances, nextId, made)
           EXCEPT !.available = plugins[c] ]

\* Faulty variant of GetDefaultPlugin: without the only-registered-plugin
\* branch.
GetDefaultPlugin_NoSole(c, co) ==
    IF DefaultPluginName(c) # NoName
    THEN [ GetInstance(c, DefaultPluginName(c), co) EXCEPT !.rung = "default" ]
    ELSE [ Outcome("ConfigurationError", NoName, NoInst, "none", FALSE,
                   instances, nextId, made)
           EXCEPT !.available = plugins[c] ]

\* Faulty variant of GetDefaultPlugin: the ConfigurationError lists every
\* known name instead of the registered ones.
GetDefaultPlugin_ListsAll(c, co) ==
    IF DefaultPluginName(c) # NoName
    THEN [ GetInstance(c, DefaultPluginName(c), co) EXCEPT !.rung = "default" ]
    ELSE IF Cardinality(plugins[c]) = 1
    THEN [ GetInstance(c, SoleName(c), co) EXCEPT !.rung = "sole" ]
    ELSE [ Outcome("ConfigurationError", NoName, NoInst, "none", FALSE,
                   instances, nextId, made)
           EXCEPT !.available = Names ]

\* Faulty variant of GetDefaultPlugin: a configured default that is not
\* registered falls through to the only registered plugin.
GetDefaultPlugin_FallThrough(c, co) ==
    IF DefaultPluginName(c) # NoName /\ DefaultPluginName(c) \in plugins[c]
    THEN [ GetInstance(c, DefaultPluginName(c), co) EXCEPT !.rung = "default" ]
    ELSE IF Cardinality(plugins[c]) = 1
    THEN [ GetInstance(c, SoleName(c), co) EXCEPT !.rung = "sole" ]
    ELSE IF DefaultPluginName(c) # NoName
    THEN [ GetInstance(c, DefaultPluginName(c), co) EXCEPT !.rung = "default" ]
    ELSE [ Outcome("ConfigurationError", NoName, NoInst, "none", FALSE,
                   instances, nextId, made)
           EXCEPT !.available = plugins[c] ]

\* get_plugin with name=None: the configured default, else the only
\* registered plugin, else ConfigurationError
GetDefaultPlugin(c, co) ==
    IF DefaultPluginName(c) # NoName
    THEN [ GetInstance(c, DefaultPluginName(c), co) EXCEPT !.rung = "default" ]
    ELSE IF Cardinality(plugins[c]) = 1
    THEN [ GetInstance(c, SoleName(c), co) EXCEPT !.rung = "sole" ]
    ELSE [ Outcome("ConfigurationError", NoName, NoInst, "none", FALSE,
                   instances, nextId, made)
           EXCEPT !.available = plugins[c] ]

\* Faulty variant of GetPlugin: an explicit name that is not registered
\* falls back to the default resolution.
GetPlugin_FallBack(c, name, co) ==
    IF name # NoName /\ name \in plugins[c]
    THEN [ GetInstance(c, name, co) EXCEPT !.rung = "explicit" ]
    ELSE GetDefaultPlugin(c, co)

GetPlugin(c, name, co) ==
    IF name # NoName
    THEN [ GetInstance(c, name, co) EXCEPT !.rung = "explicit" ]
    ELSE GetDefaultPlugin(c, co)

GetParser(file_type, parser_name, co) ==
    IF parser_name # NoName
    THEN GetPlugin("parsers", parser_name, co)
    ELSE IF file_type # NoType /\ MappingGet(Normalize(file_type)) # NoName
    THEN [ GetPlugin("parsers", MappingGet(Normalize(file_type)), co)
           EXCEPT !.rung = "mapping" ]
    ELSE GetPlugin("parsers", NoName, co)

(***************************************************************************)
(* The states a PluginManager is constructed in.  AppSettings is what the  *)
(* configuration source gave it, self._plugins what _load_all_plugins      *)
(* registered, self._instances is empty.  The resolver reads and writes    *)
(* only the entries of the capability it is asked for, so one set of       *)
(* registered names and one configured default are drawn and given to      *)
(* every capability (a capability without a settings attribute reads no    *)
(* default, whatever is drawn).                                            *)
(***************************************************************************)
NoMapping == [ k \in {} |-> NoName ]

\* parser_mapping: empty, or one entry under a lower-case or an upper-case key
MappingChoices ==
    { NoMapping } \cup
    { [ k \in { <<"p">> } |-> n ] : n \in Names } \cup
    { [ k \in { <<"P">> } |-> "n1" ] }

MkSettings(dp, d, mapping, enabled) ==
    [ default_parser |-> dp, default_chunker |-> d, default_embedder |-> d,
      default_llm_provider |-> d, document_store_name |-> d,
      vector_store_name |-> d, structured_store_name |-> d,
      parser_mapping |-> mapping, enabled_analyzers |-> enabled ]

NoCall ==
    [ op |-> "none", asked |-> NoName, file_type |-> NoType, kind |-> "none",
      name |-> NoName, inst |-> NoInst, available |-> {}, rung |-> "",
      built |-> FALSE, ctor |-> "not_run" ]

InitManager(regs) ==
    /\ plugins = regs
    /\ instances = [ c \in Capabilities |-> [ n \in Names |-> NoInst ] ]
    /\ nextId = 1
    /\ made = [ c \in Capabilities |-> [ n \in Names |-> {} ] ]

\* embeddings = None, and the list an embedder returned
NoEmb == [ some |-> FALSE, list |-> << >> ]
Emb(list) == [ some |-> TRUE, list |-> list ]

\* chunk.vectors = None
NoVec == 0

NoDoc == [ name |-> NoName, chunks |-> << >>, entities |-> << >>, relationships |-> 0 ]

\* no run is under way
RunIdle ==
    /\ pc = "idle"
    /\ args = [ file_type |-> NoType, save_document |-> FALSE,
                save_chunks |-> FALSE, run_analysis |-> FALSE ]
    /\ doc = NoDoc
    /\ embeddings = NoEmb
    /\ analyzers = << >>
    /\ idx = 0
    /\ trace = << >>
    /\ error = "none"

\* no thread is inside the PluginManager
ThreadsIdle ==
    /\ tpc = [ t \in Threads |-> "idle" ]
    /\ tname = [ t \in Threads |-> NoName ]
    /\ tinst = [ t \in Threads |-> NoInst ]

\* process and the two tasks before asyncio.create_subprocess_exec
NoProcess == [ state |-> "none", returncode |-> 0, terminated |-> FALSE ]
Streams == { "stdout", "stderr" }
NoTasks == [ st \in Streams |-> "none" ]

\* no parse is under way
InvokerIdle ==
    /\ script = << >>
    /\ ipc = "idle"
    /\ process = NoProcess
    /\ tasks = NoTasks
    /\ launches = 0
    /\ pending = "none"
    /\ cancels = 0
    /\ timedOut = FALSE
    /\ presult = "none"

\* Python's None, for a parent, a parent_id or a content
None == "<None>"

\* entry_points(group=...) returned nothing
NoEntryPoints == [ raises |-> FALSE, list |-> << >> ]

\* _load_all_plugins is not running
LoaderIdle ==
    /\ eps = [ c \in Capabilities |-> NoEntryPoints ]
    /\ lpc = "idle"
    /\ lgroup = 0
    /\ lentry = 0

\* the StructuredContent objects
Nodes == { "a", "b", "c" }

\* no get_content_by_catalogue call was made
NoLookup == [ root |-> None, id |-> None, result |-> None, called |-> FALSE ]

\* no StructuredContent object is in use
TreeIdle ==
    /\ parent = [ n \in Nodes |-> None ]
    /\ parent_id = [ n \in Nodes |-> None ]
    /\ children = [ n \in Nodes |-> << >> ]
    /\ content = [ n \in Nodes |-> None ]
    /\ nops = 0
    /\ lookup = NoLookup

\* no Chunk is in use
SegmentIdle ==
    /\ parents = {}
    /\ subs = << >>

ExtIdle == LoaderIdle /\ TreeIdle /\ SegmentIdle

InitResolver ==
    /\ \E d \in Names \cup { NoName }, mapping \in MappingChoices :
           settings = MkSettings(d, d, mapping, << >>)
    /\ \E reg \in SUBSET Names : InitManager([ c \in Capabilities |-> reg ])
    /\ client \in Capabilities
    /\ ncalls = 0
    /\ ret = NoCall
    /\ handed = [ n \in Names |-> {} ]
    /\ ThreadsIdle
    /\ InvokerIdle
    /\ ExtIdle
    /\ RunIdle

\* the caller's record of a call: what it asked and what came back
\* (ctor: what constructing the plugin did, if this call constructed it)
Returned(op, asked, file_type, co, r) ==
    [ op |-> op, asked |-> asked, file_type |-> file_type, kind |-> r.kind,
      name |-> r.name, inst |-> r.inst, available |-> r.available,
      rung |-> r.rung, built |-> r.built,
      ctor |-> IF r.built THEN co ELSE "not_run" ]

Handed(r) ==
    IF r.kind = "ok" THEN [ handed EXCEPT ![r.name] = @ \cup { r.inst } ]
    ELSE handed

\* the PluginManager after a call
Commit(r) ==
    /\ instances' = r.instances
    /\ nextId' = r.nextId
    /\ made' = r.made
    /\ UNCHANGED << settings, plugins >>

\* self.get_plugin(interface_cls, name): name = NoName is name=None
CallGetPlugin ==
    /\ ncalls < MaxCalls
    /\ \E name \in Names \cup { NoName }, co \in CtorOutcomes :
           LET r == GetPlugin(client, name, co)
           IN  /\ Commit(r)
               /\ ret' = Returned("get_plugin", name, NoType, co, r)
               /\ handed' = Handed(r)
    /\ ncalls' = ncalls + 1
    /\ UNCHANGED << client, invVars, extVars, threadVars, runVars >>

\* self.get_parser(file_type, parser_name)
CallGetParser ==
    /\ ncalls < MaxCalls
    /\ client = "parsers"
    /\ \E file_type \in FileTypes, name \in Names \cup { NoName }, co \in CtorOutcomes :
           LET r == GetParser(file_type, name, co)
           IN  /\ Commit(r)
               /\ ret' = Returned("get_parser", name, file_type, co, r)
               /\ handed' = Handed(r)
    /\ ncalls' = ncalls + 1
    /\ UNCHANGED << client, invVars, extVars, threadVars, runVars >>

NextResolver == CallGetPlugin \/ CallGetParser

SpecResolver == InitResolver /\ [][NextResolver]_vars

(***************************************************************************)
(* Threads in PluginManager._get_instance(interface_cls, plugin_name) of   *)
(* one shared PluginManager.  The method takes no lock; the interpreter    *)
(* may switch threads between its statements and inside the plugin's       *)
(* constructor, so a call is three steps: the two membership tests, the    *)
(* construction with validate_config (on the thread's local `instance`),   *)
(* and the store into self._instances followed by the return.              *)
(***************************************************************************)
InitThreads ==
    /\ settings = MkSettings(NoName, NoName, NoMapping, << >>)
    /\ \E reg \in SUBSET Names : InitManager([ c \in Capabilities |-> reg ])
    /\ client \in Capabilities
    /\ ncalls = 0
    /\ ret = NoCall
    /\ handed = [ n \in Names |-> {} ]
    /\ ThreadsIdle
    /\ InvokerIdle
    /\ ExtIdle
    /\ RunIdle

\* lines 138-142: return the cached instance, or raise PluginNotFoundError,
\* or go on to construct
ThreadEnter(t) ==
    /\ tpc[t] = "idle"
    /\ \E n \in Names :
           /\ tname' = [ tname EXCEPT ![t] = n ]
           /\ IF instances[client][n] # NoInst
              THEN /\ tpc' = [ tpc EXCEPT ![t] = "returned" ]
                   /\ tinst' = [ tinst EXCEPT ![t] = instances[client][n] ]
              ELSE IF n \notin plugins[client]
              THEN /\ tpc' = [ tpc EXCEPT ![t] = "PluginNotFoundError" ]
                   /\ UNCHANGED tinst
              ELSE /\ tpc' = [ tpc EXCEPT ![t] = "construct" ]
                   /\ UNCHANGED tinst
    /\ UNCHANGED << pmVars, clientVars, invVars, extVars, runVars >>

\* lines 144-164 and 169-175: plugin_class(config=config), validate_config
ThreadConstruct(t) ==
    /\ tpc[t] = "construct"
    /\ \E co \in CtorOutcomes :
           CASE co = "ctor_raises" ->
                    /\ tpc' = [ tpc EXCEPT ![t] = "PluginLoadError" ]
                    /\ UNCHANGED << tinst, nextId, made >>
             [] co = "ctor_raises_config" ->
                    /\ tpc' = [ tpc EXCEPT ![t] = "ConfigurationError" ]
                    /\ UNCHANGED << tinst, nextId, made >>
             [] co = "ctor_raises_plugin_config" ->
                    /\ tpc' = [ tpc EXCEPT ![t] = "PluginConfigurationError" ]
                    /\ UNCHANGED << tinst, nextId, made >>
             [] co = "validate_raises" ->
                    /\ tpc' = [ tpc EXCEPT ![t] = "PluginConfigurationError" ]
                    /\ made' = Constructed(client, tname[t])
                    /\ nextId' = nextId + 1
                    /\ UNCHANGED tinst
             [] OTHER ->
                    /\ tpc' = [ tpc EXCEPT ![t] = "store" ]
                    /\ tinst' = [ tinst EXCEPT ![t] = nextId ]
                    /\ made' = Constructed(client, tname[t])
                    /\ nextId' = nextId + 1
    /\ UNCHANGED << settings, plugins, instances, tname, clientVars, invVars, extVars, runVars >>

\* lines 166-168: self._instances[interface_cls][plugin_name] = instance
ThreadStore(t) ==
    /\ tpc[t] = "store"
    /\ instances' = StoreInstance(client, tname[t], tinst[t])
    /\ tpc' = [ tpc EXCEPT ![t] = "returned" ]
    /\ UNCHANGED << settings, plugins, nextId, made, tname, tinst, clientVars, invVars, extVars, runVars >>

NextThreads ==
    \E t \in Threads : ThreadEnter(t) \/ ThreadConstruct(t) \/ ThreadStore(t)

SpecThreads == InitThreads /\ [][NextThreads]_vars


(***************************************************************************)
(* IngestionWorkflow.run, one stage per step.  Every call on the           *)
(* PluginManager and on a plugin is appended to `trace` with its outcome:  *)
(*   call  the method called,                                              *)
(*   ok    whether it returned (FALSE: it raised),                         *)
(*   who   the plugin name concerned,                                      *)
(*   what  the exception of a failed resolution, or the kind of result.    *)
(* What the plugins do (return or raise, how many chunks and vectors, what *)
(* an analyzer gives back) is chosen freely at each call.                  *)
(***************************************************************************)
Ev(call, ok, who, what) ==
    [ call |-> call, ok |-> ok, who |-> who, what |-> what ]

\* the event of resolving a plugin
Resolved(call, r) == Ev(call, r.kind = "ok", r.name, r.kind)

\* the capabilities run resolves
RunCapabilities ==
    { "parsers", "chunkers", "embedders", "analyzers", "vector_stores",
      "structured_stores", "document_stores" }

\* what analyzer.analyze(document) does: raises; returns a list of entities
\* with analysis_type "entity_extraction"; returns something that is not a
\* list with that analysis_type; returns a result with another analysis_type
AnalyzerOutcomes == { "raises", "entities", "not_a_list", "other_type" }

\* what structured_store.save_batch does
SaveBatchOutcomes == { "ok", "NotImplementedError", "raises" }

\* the input file has no known extension (file_type=None) or is a pdf
RunFileTypes == { NoType, << "p" >> }

Init ==
    /\ settings = MkSettings(NoName, "n1", [ k \in { <<"p">> } |-> "n1" ],
                             << "n1", "n2" >>)
    /\ \E missing \in SUBSET (RunCapabilities \ { "analyzers" }),
          found \in SUBSET Names :
           InitManager([ c \in Capabilities |->
                           IF c = "analyzers" THEN found
                           ELSE IF c \in missing THEN {} ELSE Names ])
    /\ client = "parsers"
    /\ ncalls = 0
    /\ ret = NoCall
    /\ handed = [ n \in Names |-> {} ]
    /\ ThreadsIdle
    /\ InvokerIdle
    /\ ExtIdle
    /\ pc = "parse"
    /\ args \in [ file_type : RunFileTypes, save_document : BOOLEAN,
                  save_chunks : BOOLEAN, run_analysis : BOOLEAN ]
    /\ doc = NoDoc
    /\ embeddings = NoEmb
    /\ analyzers = << >>
    /\ idx = 0
    /\ trace = << >>
    /\ error = "none"

\* Faulty variant of Raise: the exception leaves run without the stage's
\* error kind.
Raise_Bare(kind) ==
    /\ pc' = "raised"
    /\ error' = "Exception"

\* raise `kind` out of run
Raise(kind) ==
    /\ pc' = "raised"
    /\ error' = kind

\* Faulty variant of Goto: the stage is entered again instead of left.
Goto_Again(next) ==
    /\ pc' = pc
    /\ UNCHANGED error

\* go on with stage `next`
Goto(next) ==
    /\ pc' = next
    /\ UNCHANGED error

\* lines 82-100: get the parser, parse, overlay the caller's name
Parse ==
    /\ pc = "parse"
    /\ \E co \in CtorOutcomes, parsed \in BOOLEAN, rels \in 0..1 :
           LET r == GetParser(args.file_type, NoName, co)
           IN  /\ Commit(r)
               /\ IF r.kind # "ok"
                  THEN /\ trace' = Append(trace, Resolved("get_parser", r))
                       /\ Raise("ParsingError")
                       /\ UNCHANGED doc
                  ELSE /\ trace' = trace \o << Resolved("get_parser", r),
                                               Ev("parse", parsed, r.name, "") >>
                       /\ IF parsed
                          THEN /\ doc' = [ name |-> "doc_name", chunks |-> << >>,
                                           entities |-> << >>, relationships |-> rels ]
                               /\ Goto("chunk")
                          ELSE /\ Raise("ParsingError")
                               /\ UNCHANGED doc
    /\ UNCHANGED << args, embeddings, analyzers, idx, clientVars, invVars, extVars, threadVars >>

\* lines 102-114: get the chunker, chunk, document.chunks = chunks
Chunk ==
    /\ pc = "chunk"
    /\ \E co \in CtorOutcomes, chunked \in BOOLEAN, n \in 0..MaxChunks :
           LET r == GetPlugin("chunkers", NoName, co)
           IN  /\ Commit(r)
               /\ IF r.kind # "ok"
                  THEN /\ trace' = Append(trace, Resolved("get_chunker", r))
                       /\ Raise("WorkflowError")
                       /\ UNCHANGED doc
                  ELSE /\ trace' = trace \o << Resolved("get_chunker", r),
                                               Ev("chunk", chunked, r.name, "") >>
                       /\ IF chunked
                          THEN /\ doc' = [ doc EXCEPT !.chunks = [ i \in 1..n |-> NoVec ] ]
                               /\ Goto("embed")
                          ELSE /\ Raise("WorkflowError")
                               /\ UNCHANGED doc
    /\ UNCHANGED << args, embeddings, analyzers, idx, clientVars, invVars, extVars, threadVars >>


\* Faulty variant of EmbedCountOk: a shorter vector list is accepted.
EmbedCountOk_AtMost(m, n) == m <= n

\* line 125: len(embeddings) == len(document.chunks)
EmbedCountOk(m, n) == m = n

\* lines 126-127: for chunk, embedding in zip(document.chunks, embeddings):
\* chunk.vectors = embedding
Zip(chunks, list) ==
    [ i \in 1..Len(chunks) |-> IF i <= Len(list) THEN list[i] ELSE chunks[i] ]

\* Faulty variant of NeedsEmbedding: chunks are embedded whether or not they
\* are to be saved.
NeedsEmbedding_Always(a, d) == d.chunks # << >>

\* line 118: if save_chunks and document.chunks
NeedsEmbedding(a, d) == a.save_chunks /\ d.chunks # << >>

\* lines 116-137: if chunks are to be saved and there are chunks, get the
\* embedder, embed, check the count and store a vector on every chunk
Embed ==
    /\ pc = "embed"
    /\ IF NeedsEmbedding(args, doc)
       THEN \E co \in CtorOutcomes, embedded \in BOOLEAN, m \in 0..(MaxChunks + 1) :
                LET r == GetPlugin("embedders", NoName, co)
                    list == [ i \in 1..m |-> i ]
                IN  /\ Commit(r)
                    /\ IF r.kind # "ok"
                       THEN /\ trace' = Append(trace, Resolved("get_embedder", r))
                            /\ Raise("EmbeddingError")
                            /\ UNCHANGED << doc, embeddings >>
                       ELSE /\ trace' = trace \o << Resolved("get_embedder", r),
                                                    Ev("embed", embedded, r.name, "") >>
                            /\ IF ~embedded
                               THEN /\ Raise("EmbeddingError")
                                    /\ UNCHANGED << doc, embeddings >>
                               ELSE /\ embeddings' = Emb(list)
                                    /\ IF EmbedCountOk(m, Len(doc.chunks))
                                       THEN /\ doc' = [ doc EXCEPT !.chunks = Zip(@, list) ]
                                            /\ Goto("get_analyzers")
                                       ELSE /\ Raise("EmbeddingError")
                                            /\ UNCHANGED doc
       ELSE /\ Goto("get_analyzers")
            /\ UNCHANGED << pmVars, doc, embeddings, trace >>
    /\ UNCHANGED << args, analyzers, idx, clientVars, invVars, extVars, threadVars >>

\* line 141: run_analysis is off
AnalysisOff ==
    /\ pc = "get_analyzers"
    /\ ~args.run_analysis
    /\ Goto("persist_vectors")
    /\ UNCHANGED << pmVars, args, doc, embeddings, analyzers, idx, trace,
                    clientVars, invVars, extVars, threadVars >>

\* Faulty variant of Ignored: every failure of get_analyzer is ignored.
Ignored_Any(kind) == kind # "ok"

\* plugin_manager.py line 297: except PluginNotFoundError
Ignored(kind) == kind = "PluginNotFoundError"

\* line 142, and get_enabled_analyzers (plugin_manager.py lines 290-299), one
\* name of settings.enabled_analyzers per step: a name that is not registered
\* is ignored, any other failure of get_analyzer leaves run as it is
GetEnabledAnalyzer ==
    /\ pc = "get_analyzers"
    /\ args.run_analysis
    /\ idx < Len(settings["enabled_analyzers"])
    /\ \E co \in CtorOutcomes :
           LET name == settings["enabled_analyzers"][idx + 1]
               r == GetPlugin("analyzers", name, co)
           IN  /\ Commit(r)
               /\ trace' = Append(trace, Resolved("get_analyzer", r))
               /\ CASE r.kind = "ok" ->
                         /\ analyzers' = Append(analyzers, name)
                         /\ idx' = idx + 1
                         /\ Goto("get_analyzers")
                    [] Ignored(r.kind) ->
                         /\ idx' = idx + 1
                         /\ Goto("get_analyzers")
                         /\ UNCHANGED analyzers
                    [] OTHER ->
                         /\ Raise(r.kind)
                         /\ UNCHANGED << analyzers, idx >>
    /\ UNCHANGED << args, doc, embeddings, clientVars, invVars, extVars, threadVars >>

\* get_enabled_analyzers returns the list
AnalyzersReturned ==
    /\ pc = "get_analyzers"
    /\ args.run_analysis
    /\ idx = Len(settings["enabled_analyzers"])
    /\ idx' = 0
    /\ Goto("analyze")
    /\ UNCHANGED << pmVars, args, doc, embeddings, analyzers, trace,
                    clientVars, invVars, extVars, threadVars >>

\* Faulty variant of OnAnalyzerError: the exception is raised as an
\* AnalysisError (the line the source has commented out).
OnAnalyzerError_Raise == [ pc |-> "raised", error |-> "AnalysisError" ]

\* lines 161-165: an exception of an analyzer is logged and the loop goes on
OnAnalyzerError == [ pc |-> "analyze", error |-> "none" ]

\* Faulty variant of Routed: the analysis_type is not looked at.
Routed_AnyType(outcome) == outcome \in { "entities", "other_type" }

\* line 153: analysis_type == "entity_extraction" and the result is a list
Routed(outcome) == outcome = "entities"

\* lines 145-165: one pass of the loop over the analyzers
Analyze ==
    /\ pc = "analyze"
    /\ idx < Len(analyzers)
    /\ \E outcome \in AnalyzerOutcomes :
           LET name == analyzers[idx + 1]
           IN  /\ trace' = Append(trace, Ev("analyze", outcome # "raises", name, outcome))
               /\ doc' = IF Routed(outcome)
                         THEN [ doc EXCEPT !.entities = Append(@, name) ]
                         ELSE doc
               /\ IF outcome = "raises"
                  THEN /\ pc' = OnAnalyzerError.pc
                       /\ error' = OnAnalyzerError.error
                  ELSE Goto("analyze")
    /\ idx' = idx + 1
    /\ UNCHANGED << pmVars, args, embeddings, analyzers, clientVars, invVars, extVars, threadVars >>

\* lines 143-168: the loop is over, or there was no analyzer
AnalysisDone ==
    /\ pc = "analyze"
    /\ idx = Len(analyzers)
    /\ Goto("persist_vectors")
    /\ UNCHANGED << pmVars, args, doc, embeddings, analyzers, idx, trace,
                    clientVars, invVars, extVars, threadVars >>


\* Faulty variant of OnVectorStoreError: the exception is only logged.
OnVectorStoreError_Swallow == [ pc |-> "persist_structured", error |-> "none" ]

\* lines 178-180: an exception of the vector store is raised as StorageError
OnVectorStoreError == [ pc |-> "raised", error |-> "StorageError" ]

\* lines 170-180: if chunks are to be saved and there are chunks and
\* embeddings, get the vector store and add the embeddings
PersistVectors ==
    /\ pc = "persist_vectors"
    /\ IF args.save_chunks /\ doc.chunks # << >> /\ embeddings.some
          /\ embeddings.list # << >>
       THEN \E co \in CtorOutcomes, added \in BOOLEAN :
                LET r == GetPlugin("vector_stores", NoName, co)
                IN  /\ Commit(r)
                    /\ trace' = IF r.kind # "ok"
                                THEN Append(trace, Resolved("get_vector_store", r))
                                ELSE trace \o << Resolved("get_vector_store", r),
                                                 Ev("add_embeddings", added, r.name, "") >>
                    /\ IF r.kind = "ok" /\ added
                       THEN Goto("persist_structured")
                       ELSE /\ pc' = OnVectorStoreError.pc
                            /\ error' = OnVectorStoreError.error
       ELSE /\ Goto("persist_structured")
            /\ UNCHANGED << pmVars, trace >>
    /\ UNCHANGED << args, doc, embeddings, analyzers, idx, clientVars, invVars, extVars, threadVars >>

\* Faulty variant of OnStructuredStoreError: the exception is raised as a
\* StorageError (the line the source has commented out).
OnStructuredStoreError_Raise == [ pc |-> "raised", error |-> "StorageError" ]

\* lines 197-202: an exception of the structured store is only logged
OnStructuredStoreError == [ pc |-> "persist_document", error |-> "none" ]

\* lines 187-195: save_batch("entities", ...) if there are entities, then
\* save_batch("relationships", ...) if there are relationships; the second is
\* not reached when the first raises
SaveBatches(name, first, second) ==
    LET e == IF doc.entities # << >>
             THEN << Ev("save_batch", first = "ok", name, "entities") >>
             ELSE << >>
        reached == doc.entities = << >> \/ first = "ok"
        l == IF doc.relationships > 0 /\ reached
             THEN << Ev("save_batch", second = "ok", name, "relationships") >>
             ELSE << >>
    IN  e \o l

\* lines 182-202: if analysis ran and left entities or relationships, get the
\* structured store and save them
PersistStructured ==
    /\ pc = "persist_structured"
    /\ IF args.run_analysis /\ (doc.entities # << >> \/ doc.relationships > 0)
       THEN \E co \in CtorOutcomes, first \in SaveBatchOutcomes,
               second \in SaveBatchOutcomes :
                LET r == GetPlugin("structured_stores", NoName, co)
                    calls == IF r.kind = "ok" THEN SaveBatches(r.name, first, second)
                             ELSE << >>
                IN  /\ Commit(r)
                    /\ trace' = Append(trace, Resolved("get_structured_store", r)) \o calls
                    /\ IF r.kind = "ok" /\ \A i \in 1..Len(calls) : calls[i].ok
                       THEN Goto("persist_document")
                       ELSE /\ pc' = OnStructuredStoreError.pc
                            /\ error' = OnStructuredStoreError.error
       ELSE /\ Goto("persist_document")
            /\ UNCHANGED << pmVars, trace >>
    /\ UNCHANGED << args, doc, embeddings, analyzers, idx, clientVars, invVars, extVars, threadVars >>

\* Faulty variant of DocToSave: the vectors are cleared on the document
\* itself before it is saved.
DocToSave_Stripped(d) ==
    [ d EXCEPT !.chunks = [ i \in 1..Len(d.chunks) |-> NoVec ] ]

\* lines 209-213: the document is saved as it is (no stripped copy is made)
DocToSave(d) == d

\* lines 204-222: if the document is to be saved, get the document store and
\* save it; then return the document
PersistDocument ==
    /\ pc = "persist_document"
    /\ IF args.save_document
       THEN \E co \in CtorOutcomes, saved \in BOOLEAN :
                LET r == GetPlugin("document_stores", NoName, co)
                IN  /\ Commit(r)
                    /\ trace' = IF r.kind # "ok"
                                THEN Append(trace, Resolved("get_document_store", r))
                                ELSE trace \o << Resolved("get_document_store", r),
                                                 Ev("save", saved, r.name, "") >>
                    /\ doc' = IF r.kind = "ok" THEN DocToSave(doc) ELSE doc
                    /\ IF r.kind = "ok" /\ saved
                       THEN Goto("returned")
                       ELSE Raise("StorageError")
       ELSE /\ Goto("returned")
            /\ UNCHANGED << pmVars, trace, doc >>
    /\ UNCHANGED << args, embeddings, analyzers, idx, clientVars, invVars, extVars, threadVars >>

Next ==
    \/ Parse
    \/ Chunk
    \/ Embed
    \/ AnalysisOff
    \/ GetEnabledAnalyzer
    \/ AnalyzersReturned
    \/ Analyze
    \/ AnalysisDone
    \/ PersistVectors
    \/ PersistStructured
    \/ PersistDocument

Spec == Init /\ [][Next]_vars


(***************************************************************************)
(* PdfParser.parse running magic-pdf (plugins/parsers/pdf/parser.py).      *)
(* parse calls asyncio.run(self._run_magic_pdf(...)) once.  The coroutine  *)
(* launches the child process, starts one task per output stream           *)
(* (_log_stream) and awaits the two tasks and process.wait() under         *)
(* asyncio.wait_for.  The event loop runs the coroutine and the two tasks  *)
(* one at a time and switches between them at each await; the child        *)
(* process runs on its own.  `script` says what the command does each time *)
(* it is launched; the code launches it once and reads script[1] only.     *)
(***************************************************************************)
\* launches the command's script describes
MaxAttempts == 2
\* external cancellations of the coroutine
MaxCancels == 2

\* what a launched magic-pdf does: exits with code 0, or with code 1, before
\* magic_pdf_timeout_seconds; runs past the timeout and exits when it is
\* sent SIGTERM; runs past the timeout and ignores SIGTERM
Behaviours == { "exit0", "exit1", "hang", "hang_ignores_term" }
Scripts == UNION { [ 1..n -> Behaviours ] : n \in 1..MaxAttempts }

InitInvoker ==
    /\ settings = MkSettings(NoName, NoName, NoMapping, << >>)
    /\ InitManager([ c \in Capabilities |-> {} ])
    /\ client = "parsers"
    /\ ncalls = 0
    /\ ret = NoCall
    /\ handed = [ n \in Names |-> {} ]
    /\ tpc = [ t \in Threads |-> "idle" ]
    /\ tname = [ t \in Threads |-> NoName ]
    /\ tinst = [ t \in Threads |-> NoInst ]
    /\ RunIdle
    /\ script \in Scripts
    /\ ipc = "start"
    /\ process = NoProcess
    /\ tasks = NoTasks
    /\ launches = 0
    /\ pending = "none"
    /\ cancels = 0
    /\ timedOut = FALSE
    /\ presult = "none"
    /\ ExtIdle

\* a task is done: _log_stream returned at end of stream, after a read
\* error, or after it was cancelled
TaskDone(ts, st) == ts[st] \in { "eof", "error", "cancelled" }
Done(ts) == \A st \in Streams : TaskDone(ts, st)

\* stdout_task.cancel(); stderr_task.cancel(): a task that is not done gets
\* CancelledError at its next step
CancelTasks(ts) ==
    [ st \in Streams |-> IF ts[st] = "running" THEN "cancelling" ELSE ts[st] ]

\* process.terminate()
Terminate(proc) == [ proc EXCEPT !.terminated = TRUE ]

NotInvoker == UNCHANGED << pmVars, clientVars, threadVars, runVars, extVars >>

\* lines 218-233: create_subprocess_exec and the two create_task
Launch ==
    /\ ipc = "start"
    /\ process' = [ state |-> "running", returncode |-> 0, terminated |-> FALSE ]
    /\ tasks' = [ st \in Streams |-> "running" ]
    /\ launches' = launches + 1
    /\ ipc' = "wait"
    /\ UNCHANGED << script, pending, cancels, timedOut, presult >>
    /\ NotInvoker

\* the child process exits: by itself with its exit code, or on SIGTERM
ProcessExits ==
    /\ process.state = "running"
    /\ IF process.terminated
       THEN /\ script[launches] # "hang_ignores_term"
            /\ process' = [ process EXCEPT !.state = "exited", !.returncode = -15 ]
       ELSE /\ script[launches] \in { "exit0", "exit1" }
            /\ process' = [ process EXCEPT !.state = "exited",
                              !.returncode = IF script[launches] = "exit0" THEN 0 ELSE 1 ]
    /\ UNCHANGED << script, ipc, tasks, launches, pending, cancels, timedOut, presult >>
    /\ NotInvoker

\* _log_stream lines 190-192: read returns b"" once the process closed the
\* stream
TaskReadsEof(st) ==
    /\ tasks[st] = "running"
    /\ process.state = "exited"
    /\ tasks' = [ tasks EXCEPT ![st] = "eof" ]
    /\ UNCHANGED << script, ipc, process, launches, pending, cancels, timedOut, presult >>
    /\ NotInvoker

\* _log_stream lines 200-202: reading or logging raised, the loop is left
TaskReadFails(st) ==
    /\ tasks[st] = "running"
    /\ tasks' = [ tasks EXCEPT ![st] = "error" ]
    /\ UNCHANGED << script, ipc, process, launches, pending, cancels, timedOut, presult >>
    /\ NotInvoker

\* _log_stream lines 197-199: CancelledError at the read, the loop is left
TaskCancelled(st) ==
    /\ tasks[st] = "cancelling"
    /\ tasks' = [ tasks EXCEPT ![st] = "cancelled" ]
    /\ UNCHANGED << script, ipc, process, launches, pending, cancels, timedOut, presult >>
    /\ NotInvoker

\* Faulty variant of Succeeded: every exit code counts as success.
Succeeded_AnyCode(returncode) == returncode = returncode

\* line 246: if returncode == 0
Succeeded(returncode) == returncode = 0

\* lines 238-254, 286-292: the gather returned; exit code 0 leaves through
\* finally, another code raises MagicPdfExecutionError inside the try, which
\* the `except Exception` clause catches
GatherReturns ==
    /\ ipc = "wait"
    /\ Done(tasks)
    /\ process.state = "exited"
    /\ IF Succeeded(process.returncode)
       THEN /\ pending' = "success"
            /\ ipc' = "finally"
       ELSE /\ pending' = "none"
            /\ ipc' = "error_gather"
    /\ UNCHANGED << script, process, tasks, launches, cancels, timedOut, presult >>
    /\ NotInvoker

\* lines 294-296: the gather of the except clause, then the raise
ErrorGathered ==
    /\ ipc = "error_gather"
    /\ Done(tasks)
    /\ pending' = "MagicPdfExecutionError"
    /\ ipc' = "finally"
    /\ UNCHANGED << script, process, tasks, launches, cancels, timedOut, presult >>
    /\ NotInvoker

\* wait_for of line 238: magic_pdf_timeout_seconds passed; wait_for cancels
\* the gather, which cancels the two tasks and the process.wait()
WaitTimesOut ==
    /\ ipc = "wait"
    /\ process.state = "running"
    /\ script[launches] \in { "hang", "hang_ignores_term" }
    /\ tasks' = CancelTasks(tasks)
    /\ timedOut' = TRUE
    /\ ipc' = "timeout_cancel"
    /\ UNCHANGED << script, process, launches, pending, cancels, presult >>
    /\ NotInvoker

\* lines 256-266: TimeoutError reaches the except clause once the gather is
\* cancelled; the tasks are cancelled, the process is sent SIGTERM
OnTimeout ==
    /\ ipc = "timeout_cancel"
    /\ Done(tasks)
    /\ process' = Terminate(process)
    /\ ipc' = "grace"
    /\ UNCHANGED << script, tasks, launches, pending, cancels, timedOut, presult >>
    /\ NotInvoker

\* lines 266-273: wait_for(process.wait(), timeout=5.0) returns because the
\* process exited, or its 5 seconds passed (logged as a warning)
GraceOver ==
    /\ ipc = "grace"
    /\ ipc' = "timeout_gather"
    /\ UNCHANGED << script, process, tasks, launches, pending, cancels, timedOut, presult >>
    /\ NotInvoker

\* lines 275-276: the gather of the two tasks, then the raise
TimeoutGathered ==
    /\ ipc = "timeout_gather"
    /\ Done(tasks)
    /\ pending' = "MagicPdfExecutionError"
    /\ ipc' = "finally"
    /\ UNCHANGED << script, process, tasks, launches, cancels, timedOut, presult >>
    /\ NotInvoker

\* the awaits of _run_magic_pdf after the launch
AwaitPoints ==
    { "wait", "timeout_cancel", "grace", "timeout_gather", "error_gather",
      "cancel_gather", "finally" }

\* The coroutine is cancelled from outside while it is suspended at an
\* await.  The awaited gather is cancelled with it.  At line 238 the
\* CancelledError is raised in the try body; at the awaits of the except
\* clauses it leaves the clause and goes to finally; at the await of
\* finally it leaves the coroutine.
Cancelled ==
    /\ cancels < MaxCancels
    /\ ipc \in AwaitPoints
    /\ cancels' = cancels + 1
    /\ tasks' = CancelTasks(tasks)
    /\ IF ipc \in { "wait", "timeout_cancel" }
       THEN /\ ipc' = "cancel_raise"
            /\ UNCHANGED pending
       ELSE /\ ipc' = "finally"
            /\ pending' = "CancelledError"
    /\ UNCHANGED << script, process, launches, timedOut, presult >>
    /\ NotInvoker

\* Faulty variant of OnCancelledProcess: the process is left alone.
OnCancelledProcess_NoTerminate(proc) == proc

\* lines 282-283: if process.returncode is None: process.terminate()
OnCancelledProcess(proc) ==
    IF proc.state = "running" THEN Terminate(proc) ELSE proc

\* lines 277-285: the except CancelledError clause
OnCancelled ==
    /\ ipc = "cancel_raise"
    /\ Done(tasks)
    /\ process' = OnCancelledProcess(process)
    /\ pending' = "CancelledError"
    /\ ipc' = IF process.state = "running" THEN "cancel_gather" ELSE "finally"
    /\ UNCHANGED << script, tasks, launches, cancels, timedOut, presult >>
    /\ NotInvoker

\* lines 284-285: the gather of the two tasks and process.wait(), then raise
CancelGathered ==
    /\ ipc = "cancel_gather"
    /\ Done(tasks)
    /\ process.state = "exited"
    /\ ipc' = "finally"
    /\ UNCHANGED << script, process, tasks, launches, pending, cancels, timedOut, presult >>
    /\ NotInvoker

\* lines 297-301: the gather of finally, then _run_magic_pdf returns or the
\* pending exception leaves it
Finish ==
    /\ ipc = "finally"
    /\ Done(tasks)
    /\ ipc' = IF pending = "success" THEN "returned" ELSE "raised"
    /\ UNCHANGED << script, process, tasks, launches, pending, cancels, timedOut, presult >>
    /\ NotInvoker

\* parse lines 118-161: after asyncio.run returned, the output files are
\* read and mapped to a Document, or found missing or invalid; an exception
\* of asyncio.run is wrapped in MagicPdfExecutionError and then in
\* ParsingError; CancelledError is not an Exception and passes through
ParseEnds ==
    /\ ipc \in { "returned", "raised" }
    /\ presult = "none"
    /\ CASE ipc = "returned" -> presult' \in { "Document", "ParsingError" }
         [] pending = "CancelledError" -> presult' = "CancelledError"
         [] OTHER -> presult' = "ParsingError"
    /\ UNCHANGED << script, ipc, process, tasks, launches, pending, cancels, timedOut >>
    /\ NotInvoker

NextInvoker ==
    \/ Launch
    \/ ProcessExits
    \/ \E st \in Streams : TaskReadsEof(st)
    \/ \E st \in Streams : TaskReadFails(st)
    \/ \E st \in Streams : TaskCancelled(st)
    \/ GatherReturns
    \/ ErrorGathered
    \/ WaitTimesOut
    \/ OnTimeout
    \/ GraceOver
    \/ TimeoutGathered
    \/ Cancelled
    \/ OnCancelled
    \/ CancelGathered
    \/ Finish
    \/ ParseEnds

SpecInvoker == InitInvoker /\ [][NextInvoker]_vars

\* The event loop runs every step of the coroutine and of the two tasks
\* that is ready, the timers of the two wait_for fire, and a process that
\* exits (by itself or on SIGTERM) does so in finite time.  Nothing
\* obliges the caller to cancel, nor a read to fail.
InvokerFairness ==
    /\ WF_vars(Launch)
    /\ WF_vars(ProcessExits)
    /\ \A st \in Streams : WF_vars(TaskReadsEof(st))
    /\ \A st \in Streams : WF_vars(TaskCancelled(st))
    /\ WF_vars(GatherReturns)
    /\ WF_vars(ErrorGathered)
    /\ WF_vars(WaitTimesOut)
    /\ WF_vars(OnTimeout)
    /\ WF_vars(GraceOver)
    /\ WF_vars(TimeoutGathered)
    /\ WF_vars(OnCancelled)
    /\ WF_vars(CancelGathered)
    /\ WF_vars(Finish)
    /\ WF_vars(ParseEnds)

SpecInvokerFair == SpecInvoker /\ InvokerFairness


(***************************************************************************)
(* PluginManager._load_all_plugins (core/plugin_manager.py), which the     *)
(* constructor calls on an empty self._plugins.  The environment declares  *)
(* entry points per group "scrsit.<group>": a mapping from names to        *)
(* things to load, so the names of one group are distinct.                 *)
(***************************************************************************)
\* the groups of PLUGIN_GROUPS, counted from the first, that the environment
\* declares entry points for
MaxGroups == 2

\* PLUGIN_GROUPS.items(), in order
GroupOrder ==
    << "parsers", "chunkers", "embedders", "analyzers", "llm_providers",
       "ocr_providers", "multimodal_providers", "document_stores",
       "vector_stores", "structured_stores", "knowledge_providers",
       "reviewers", "proposal_generators" >>

DeclaredGroups == { GroupOrder[i] : i \in 1..MaxGroups }

\* what an entry point does when it is loaded: ep.load() returns a subclass
\* of the interface; ep.load() raises, or returns something issubclass or
\* __name__ raises on; ep.load() returns a class that is no subclass
EntryKinds == { "ok", "raises", "wrong_interface" }

Entries == [ name : Names, kind : EntryKinds ]

\* the entry points of one group, in the order they are iterated
EntryLists ==
    { << >> } \cup { << e >> : e \in Entries } \cup
    { l \in { << e1, e2 >> : e1 \in Entries, e2 \in Entries } :
          l[1].name # l[2].name }

\* importlib.metadata.entry_points(group=...) raises, or returns a list
EntryPoints ==
    { [ raises |-> TRUE, list |-> << >> ] } \cup
    { [ raises |-> FALSE, list |-> l ] : l \in EntryLists }

InitLoader ==
    /\ settings = MkSettings(NoName, NoName, NoMapping, << >>)
    /\ InitManager([ c \in Capabilities |-> {} ])
    /\ client = "parsers"
    /\ ncalls = 0
    /\ ret = NoCall
    /\ handed = [ n \in Names |-> {} ]
    /\ ThreadsIdle
    /\ RunIdle
    /\ InvokerIdle
    /\ TreeIdle
    /\ SegmentIdle
    /\ eps \in { [ c \in Capabilities |->
                     IF c \in DeclaredGroups THEN f[c] ELSE NoEntryPoints ] :
                 f \in [ DeclaredGroups -> EntryPoints ] }
    /\ lpc = "group"
    /\ lgroup = 1
    /\ lentry = 0

NotLoader ==
    UNCHANGED << settings, instances, nextId, made, clientVars, threadVars,
                 runVars, invVars, treeVars, segVars, eps >>

\* lines 71-75: entry_points raised; the group is skipped
GroupFails ==
    /\ lpc = "group"
    /\ lgroup <= Len(GroupOrder)
    /\ eps[GroupOrder[lgroup]].raises
    /\ lgroup' = lgroup + 1
    /\ UNCHANGED << plugins, lpc, lentry >>
    /\ NotLoader

\* lines 77-79: no entry point in the group
GroupEmpty ==
    /\ lpc = "group"
    /\ lgroup <= Len(GroupOrder)
    /\ ~eps[GroupOrder[lgroup]].raises
    /\ eps[GroupOrder[lgroup]].list = << >>
    /\ lgroup' = lgroup + 1
    /\ UNCHANGED << plugins, lpc, lentry >>
    /\ NotLoader

\* lines 81-83: the loop over the entry points of the group starts
GroupListed ==
    /\ lpc = "group"
    /\ lgroup <= Len(GroupOrder)
    /\ ~eps[GroupOrder[lgroup]].raises
    /\ eps[GroupOrder[lgroup]].list # << >>
    /\ lpc' = "entries"
    /\ lentry' = 1
    /\ UNCHANGED << plugins, lgroup >>
    /\ NotLoader

\* Faulty variant of OnLoadError: the error is raised out of
\* _load_all_plugins.
OnLoadError_Raise == "raised"

\* lines 102-105: an exception of loading or checking an entry point is
\* logged and the loop goes on
OnLoadError == "entries"

\* lines 84-105: one entry point is loaded, checked and registered
LoadEntry ==
    /\ lpc = "entries"
    /\ lentry <= Len(eps[GroupOrder[lgroup]].list)
    /\ LET g == GroupOrder[lgroup]
           ep == eps[g].list[lentry]
       IN  CASE ep.kind = "raises" ->
                    /\ lpc' = OnLoadError
                    /\ UNCHANGED plugins
             [] ep.kind = "wrong_interface" ->
                    UNCHANGED << plugins, lpc >>
             [] OTHER ->
                    /\ plugins' = [ plugins EXCEPT ![g] = @ \cup { ep.name } ]
                    /\ UNCHANGED lpc
    /\ lentry' = lentry + 1
    /\ UNCHANGED lgroup
    /\ NotLoader

\* line 83: the entry points of the group are exhausted
GroupDone ==
    /\ lpc = "entries"
    /\ lentry > Len(eps[GroupOrder[lgroup]].list)
    /\ lpc' = "group"
    /\ lgroup' = lgroup + 1
    /\ lentry' = 0
    /\ UNCHANGED plugins
    /\ NotLoader

\* lines 69, 107: PLUGIN_GROUPS is exhausted
LoadDone ==
    /\ lpc = "group"
    /\ lgroup > Len(GroupOrder)
    /\ lpc' = "done"
    /\ UNCHANGED << plugins, lgroup, lentry >>
    /\ NotLoader

NextLoader ==
    \/ GroupFails
    \/ GroupEmpty
    \/ GroupListed
    \/ LoadEntry
    \/ GroupDone
    \/ LoadDone

SpecLoader == InitLoader /\ [][NextLoader]_vars


(***************************************************************************)
(* StructuredContent (core/document/base/structured_content.py).  A few    *)
(* objects with distinct ids, constructed without parent and children;     *)
(* an object is named by its id.  add_child and remove_child are called    *)
(* on any of them with any of them, get_content_by_catalogue on any of     *)
(* them with any id.                                                       *)
(***************************************************************************)
\* add_child and remove_child calls of one behaviour
MaxOps == 2

\* the content an object is constructed with: None, "" or a text
Contents == { None, "", "x" }

\* the ids asked for: the ids of the objects and an id no object has
CatalogueIds == Nodes \cup { "zz" }

\* the recursion of get_content_by_catalogue went deeper than Python allows
RecursionError == "<RecursionError>"

\* deeper than any path without a repeated object
DepthLimit == Cardinality(Nodes) + 1

InitTree ==
    /\ settings = MkSettings(NoName, NoName, NoMapping, << >>)
    /\ InitManager([ c \in Capabilities |-> {} ])
    /\ client = "parsers"
    /\ ncalls = 0
    /\ ret = NoCall
    /\ handed = [ n \in Names |-> {} ]
    /\ ThreadsIdle
    /\ RunIdle
    /\ InvokerIdle
    /\ LoaderIdle
    /\ SegmentIdle
    /\ parent = [ n \in Nodes |-> None ]
    /\ parent_id = [ n \in Nodes |-> None ]
    /\ children = [ n \in Nodes |-> << >> ]
    /\ content \in [ Nodes -> Contents ]
    /\ nops = 0
    /\ lookup = NoLookup

NotTree ==
    UNCHANGED << pmVars, clientVars, threadVars, runVars, invVars,
                 loaderVars, segVars, content >>

\* lines 47-49 of add_child, called on p with c
AddChild(p, c) ==
    /\ nops < MaxOps
    /\ parent' = [ parent EXCEPT ![c] = p ]
    /\ parent_id' = [ parent_id EXCEPT ![c] = p ]
    /\ children' = [ children EXCEPT ![p] = Append(@, c) ]
    /\ nops' = nops + 1
    /\ lookup' = NoLookup
    /\ NotTree

\* list.remove(c): the list without the first c
RemoveFirst(list, c) ==
    LET i == CHOOSE j \in 1..Len(list) :
                 /\ list[j] = c
                 /\ \A k \in 1..(j - 1) : list[k] # c
    IN  SubSeq(list, 1, i - 1) \o SubSeq(list, i + 1, Len(list))

\* lines 58-60 of remove_child, called on p with c; when c is not in
\* p.children line 58 raises ValueError and nothing changes
RemoveChild(p, c) ==
    /\ nops < MaxOps
    /\ \E i \in 1..Len(children[p]) : children[p][i] = c
    /\ children' = [ children EXCEPT ![p] = RemoveFirst(@, c) ]
    /\ parent' = [ parent EXCEPT ![c] = None ]
    /\ parent_id' = [ parent_id EXCEPT ![c] = None ]
    /\ nops' = nops + 1
    /\ lookup' = NoLookup
    /\ NotTree

\* line 136: if content
Truthy(text) == text \notin { None, "" }

\* lines 132-138: get_content_by_catalogue on n; a RecursionError leaves
\* every call under way
RECURSIVE GetContentByCatalogue(_, _, _)
RECURSIVE ScanChildren(_, _, _, _)
GetContentByCatalogue(n, catalogue_id, depth) ==
    IF depth > DepthLimit THEN RecursionError
    ELSE IF n = catalogue_id THEN content[n]
    ELSE ScanChildren(children[n], 1, catalogue_id, depth + 1)

\* lines 134-138: the loop over the children from the i-th on
ScanChildren(list, i, catalogue_id, depth) ==
    IF i > Len(list) THEN None
    ELSE LET found == GetContentByCatalogue(list[i], catalogue_id, depth)
         IN  IF found = RecursionError THEN RecursionError
             ELSE IF Truthy(found) THEN found
             ELSE ScanChildren(list, i + 1, catalogue_id, depth)

\* root.get_content_by_catalogue(catalogue_id)
Lookup(root, catalogue_id) ==
    /\ lookup' = [ root |-> root, id |-> catalogue_id,
                   result |-> GetContentByCatalogue(root, catalogue_id, 1),
                   called |-> TRUE ]
    /\ UNCHANGED << parent, parent_id, children, nops >>
    /\ NotTree

NextTree ==
    \/ \E p \in Nodes, c \in Nodes : AddChild(p, c)
    \/ \E p \in Nodes, c \in Nodes : RemoveChild(p, c)
    \/ \E root \in Nodes, catalogue_id \in CatalogueIds : Lookup(root, catalogue_id)

SpecTree == InitTree /\ [][NextTree]_vars


(***************************************************************************)
(* The segmentation methods of Chunk (core/document/base/chunk.py).  The   *)
(* chunks of one document have distinct order_index values; each is split  *)
(* once by one of the methods.  A text is modelled by what the methods     *)
(* count in it: its sentences, its non-blank paragraphs, its words.        *)
(***************************************************************************)
\* the largest order_index of a chunk of the document
MaxIndex == 1
\* the most sentences, paragraphs or words of the content of a chunk
MaxSegments == 101

\* order_index = self.order_index * 100 + idx
IndexStride == 100

\* the sentences, paragraphs or words a content may have
SegmentCounts == { 0, 1, 2, MaxSegments }

\* the doc_id of the document
DocIds == { "doc-1", "doc-2" }

\* the chunk was not split
NotSplit == [ done |-> FALSE, method |-> "none", chunks |-> << >> ]

\* what a method returned
Split(method, list) == [ done |-> TRUE, method |-> method, chunks |-> list ]

\* Chunk(doc_id=self.doc_id, order_index=self.order_index * 100 + idx, ...)
SubChunk(chunk, i) ==
    [ doc_id |-> chunk.doc_id, order_index |-> chunk.order_index * IndexStride + i ]

\* lines 74-89: re.split gave n sentences; the ones that are empty after
\* strip() (the positions of `blank`) give no chunk, the others keep the
\* index enumerate(sentences, start=1) gave them
SegmentBySemantics(chunk, n, blank) ==
    SelectSeq([ i \in 1..n |-> SubChunk(chunk, i) ],
              LAMBDA sub : (sub.order_index - chunk.order_index * IndexStride) \notin blank)

\* lines 98-111: the n non-blank paragraphs, enumerated from 1
SegmentByParagraph(chunk, n) ==
    [ i \in 1..n |-> SubChunk(chunk, i) ]

\* lines 123-138: for idx in range(0, len(words), max_tokens), with the
\* index (idx // max_tokens) + 1
SegmentByTokenCount(chunk, words, max_tokens) ==
    [ k \in 1..((words + max_tokens - 1) \div max_tokens) |->
        SubChunk(chunk, (((k - 1) * max_tokens) \div max_tokens) + 1) ]

InitSegment ==
    /\ settings = MkSettings(NoName, NoName, NoMapping, << >>)
    /\ InitManager([ c \in Capabilities |-> {} ])
    /\ client = "parsers"
    /\ ncalls = 0
    /\ ret = NoCall
    /\ handed = [ n \in Names |-> {} ]
    /\ ThreadsIdle
    /\ RunIdle
    /\ InvokerIdle
    /\ LoaderIdle
    /\ TreeIdle
    /\ \E d \in DocIds, ixs \in (SUBSET (0..MaxIndex)) \ { {} } :
           /\ parents = { [ doc_id |-> d, order_index |-> i ] : i \in ixs }
           /\ subs = [ i \in ixs |-> NotSplit ]

NotSegment ==
    UNCHANGED << pmVars, clientVars, threadVars, runVars, invVars,
                 loaderVars, treeVars, parents >>

\* chunk.segment_by_semantics(); only the last piece re.split returns can
\* be empty after strip()
BySemantics(chunk) ==
    /\ chunk \in parents
    /\ ~subs[chunk.order_index].done
    /\ \E n \in SegmentCounts \ { 0 }, blank \in BOOLEAN :
           subs' = [ subs EXCEPT ![chunk.order_index] =
                       Split("semantics",
                             SegmentBySemantics(chunk, n, IF blank THEN { n } ELSE {})) ]
    /\ NotSegment

\* chunk.segment_by_paragraph()
ByParagraph(chunk) ==
    /\ chunk \in parents
    /\ ~subs[chunk.order_index].done
    /\ \E n \in SegmentCounts :
           subs' = [ subs EXCEPT ![chunk.order_index] =
                       Split("paragraph", SegmentByParagraph(chunk, n)) ]
    /\ NotSegment

\* chunk.segment_by_token_count(max_tokens), max_tokens >= 1
ByTokenCount(chunk) ==
    /\ chunk \in parents
    /\ ~subs[chunk.order_index].done
    /\ \E words \in SegmentCounts, max_tokens \in 1..2 :
           subs' = [ subs EXCEPT ![chunk.order_index] =
                       Split("token_count",
                             SegmentByTokenCount(chunk, words, max_tokens)) ]
    /\ NotSegment

NextSegment ==
    \/ \E chunk \in parents : BySemantics(chunk)
    \/ \E chunk \in parents : ByParagraph(chunk)
    \/ \E chunk \in parents : ByTokenCount(chunk)

SpecSegment == InitSegment /\ [][NextSegment]_vars

(***************************************************************************)
(* Properties of IngestionWorkflow.run, under Spec.                        *)
(***************************************************************************)
VectorStoreCalls == { "get_vector_store", "add_embeddings" }
StructuredStoreCalls == { "get_structured_store", "save_batch" }
DocumentStoreCalls == { "get_document_store", "save" }
PersistenceCalls ==
    VectorStoreCalls \cup StructuredStoreCalls \cup DocumentStoreCalls

\* the last call run made is one of `calls` and it raised
LastFailed(calls) ==
    /\ trace # << >>
    /\ trace[Len(trace)].call \in calls
    /\ ~trace[Len(trace)].ok

\* the embedder returned a list whose length is not the number of chunks
CountMismatch ==
    /\ args.save_chunks
    /\ doc.chunks # << >>
    /\ embeddings.some
    /\ Len(embeddings.list) # Len(doc.chunks)

\* C1: when chunks are to be saved, there are chunks and the embedder
\* returns a list whose length differs from the number of chunks, run raises
\* EmbeddingError right after embed, no chunk has a vector, and no call on
\* the vector store, the structured store or the document store is made.
C1_EmbeddingCount ==
    CountMismatch =>
        /\ pc = "raised"
        /\ error = "EmbeddingError"
        /\ trace[Len(trace)].call = "embed"
        /\ \A i \in 1..Len(doc.chunks) : doc.chunks[i] = NoVec
        /\ \A j \in 1..Len(trace) : trace[j].call \notin PersistenceCalls

\* C1 witness: two chunks, the embedder returned one vector, run has raised.
C1_Witness ==
    /\ CountMismatch
    /\ Len(doc.chunks) = 2
    /\ Len(embeddings.list) = 1
    /\ pc = "raised"

\* C2: if resolving the vector store or add_embeddings fails, that is the
\* last thing run does: it raises StorageError and the document store is
\* neither resolved nor asked to save.
C2_VectorFailureAborts ==
    \A i \in 1..Len(trace) :
        (trace[i].call \in VectorStoreCalls /\ ~trace[i].ok) =>
            /\ i = Len(trace)
            /\ pc = "raised"
            /\ error = "StorageError"
            /\ \A j \in 1..Len(trace) : trace[j].call \notin DocumentStoreCalls

\* C2 witness: add_embeddings raised in a run that was to save the document.
C2_Witness ==
    /\ args.save_document
    /\ LastFailed({ "add_embeddings" })
    /\ pc = "raised"

\* C3: in a run with save_document, once resolving the structured store or a
\* save_batch has failed, run does not raise for it: it goes on to the
\* document store, a run that ended has resolved the document store after the
\* failure, it raises only a StorageError of the document store, and it
\* returns the document when document_store.save returned.
C3_StructuredFailureLogged ==
    \A i \in 1..Len(trace) :
        (args.save_document /\ trace[i].call \in StructuredStoreCalls
            /\ ~trace[i].ok) =>
            /\ pc \in { "persist_document", "returned", "raised" }
            /\ pc = "persist_document" => i = Len(trace)
            /\ pc \in { "returned", "raised" } =>
                   \E j \in (i + 1)..Len(trace) : trace[j].call = "get_document_store"
            /\ pc = "raised" =>
                   /\ error = "StorageError"
                   /\ LastFailed(DocumentStoreCalls)
            /\ (trace[Len(trace)].call = "save" /\ trace[Len(trace)].ok) =>
                   pc = "returned"

\* C3 witness: save_batch of the entities raised, document_store.save was
\* called afterwards and returned, and run returned the document.
C3_Witness ==
    /\ args.save_document
    /\ pc = "returned"
    /\ \E i \in 1..Len(trace) :
           /\ trace[i].call = "save_batch"
           /\ ~trace[i].ok
    /\ trace[Len(trace)].call = "save"
    /\ trace[Len(trace)].ok

\* the analyze calls made so far
AnalyzeCalls == SelectSeq(trace, LAMBDA e : e.call = "analyze")

\* the analyzers whose analyze was called, in order
Invoked == [ i \in 1..Len(AnalyzeCalls) |-> AnalyzeCalls[i].who ]

\* the analyzers whose analyze returned a list of entities, in order
Contributors ==
    LET es == SelectSeq(AnalyzeCalls, LAMBDA e : e.what = "entities")
    IN  [ i \in 1..Len(es) |-> es[i].who ]

\* run is past the analysis stage
PastAnalysis ==
    \/ pc \in { "persist_vectors", "persist_structured", "persist_document",
                "returned" }
    \/ pc = "raised" /\ LastFailed(PersistenceCalls)

\* C4: run never raises because an analyzer's analyze raised; once the
\* analysis stage of a run with run_analysis is over, every enabled analyzer
\* that was resolved has been invoked once, in the configured order, whether
\* or not one before it raised, and Document.entities holds the entities of
\* every analyzer that returned some.
C4_AnalyzerIsolation ==
    /\ pc = "raised" => ~LastFailed({ "analyze" })
    /\ doc.entities = Contributors
    /\ (args.run_analysis /\ PastAnalysis) => Invoked = analyzers

\* C4 witness: n1's analyze raised, n2's analyze was called after it and
\* returned entities, and run returned a document holding them.
C4_Witness ==
    /\ pc = "returned"
    /\ analyzers = << "n1", "n2" >>
    /\ Len(AnalyzeCalls) = 2
    /\ AnalyzeCalls[1].what = "raises"
    /\ AnalyzeCalls[2].what = "entities"
    /\ doc.entities = << "n2" >>


(***************************************************************************)
(* Properties of the resolver, under SpecResolver.                         *)
(***************************************************************************)
\* a call was made and has returned or raised
Called == ret.op # "none"

\* the errors of constructing a plugin, as _get_instance raises them
ConstructionErrors ==
    { "PluginLoadError", "PluginConfigurationError", "ConfigurationError" }

\* the last call had a parser_mapping entry to use
Mapped ==
    /\ ret.op = "get_parser"
    /\ ret.file_type # NoType
    /\ Normalize(ret.file_type) \in DOMAIN settings["parser_mapping"]

\* C5: get_plugin and get_parser called with an explicit name hand exactly
\* that name to _get_instance, whatever parser_mapping and the configured
\* default say; if the name is registered the call is not a
\* PluginNotFoundError and a successful call returns the instance cached
\* under that name; if it is not registered the call raises
\* PluginNotFoundError and returns nothing.
C5_ExplicitNameWins ==
    (Called /\ ret.asked # NoName) =>
        /\ ret.name = ret.asked
        /\ ret.rung = "explicit"
        /\ ret.asked \in plugins[client] => ret.kind # "PluginNotFoundError"
        /\ ret.kind = "ok" =>
               /\ ret.inst # NoInst
               /\ ret.inst = instances[client][ret.asked]
        /\ ret.asked \notin plugins[client] =>
               /\ ret.kind = "PluginNotFoundError"
               /\ ret.inst = NoInst

\* C5 witness: get_parser with an explicit name that is not registered, while
\* parser_mapping names a registered parser for the file type, the configured
\* default is registered and is the only registered parser: PluginNotFoundError.
C5_Witness ==
    /\ ret.op = "get_parser"
    /\ ret.asked = "n1"
    /\ plugins[client] = { "n2" }
    /\ DefaultPluginName(client) = "n2"
    /\ Mapped
    /\ ret.kind = "PluginNotFoundError"

\* C6: without an explicit name, the name handed to _get_instance is the
\* parser_mapping entry of the normalized file type if get_parser finds one,
\* else the configured default if there is one, else the only registered
\* name if exactly one is registered; otherwise the call raises a
\* ConfigurationError listing the registered names and selects nothing.
C6_ResolutionOrder ==
    (Called /\ ret.asked = NoName) =>
        IF Mapped
        THEN /\ ret.name = settings["parser_mapping"][Normalize(ret.file_type)]
             /\ ret.rung = "mapping"
        ELSE IF DefaultPluginName(client) # NoName
        THEN /\ ret.name = DefaultPluginName(client)
             /\ ret.rung = "default"
        ELSE IF Cardinality(plugins[client]) = 1
        THEN /\ plugins[client] = { ret.name }
             /\ ret.rung = "sole"
        ELSE /\ ret.kind = "ConfigurationError"
             /\ ret.rung = "none"
             /\ ret.available = plugins[client]
             /\ ret.name = NoName
             /\ ret.inst = NoInst

\* C6 witness: get_parser for ".P" with a mapping entry under "p" naming n2,
\* while n1 is the configured default: the mapped n2 is returned.
C6_Witness ==
    /\ ret.op = "get_parser"
    /\ ret.asked = NoName
    /\ ret.file_type = << ".", "P" >>
    /\ settings["parser_mapping"] = [ k \in { <<"p">> } |-> "n2" ]
    /\ DefaultPluginName(client) = "n1"
    /\ plugins[client] = Names
    /\ ret.kind = "ok"
    /\ ret.name = "n2"

\* exactly one implementation registered and no configured default
SoleCandidate ==
    /\ Cardinality(plugins[client]) = 1
    /\ DefaultPluginName(client) = NoName

\* C7 as stated: with exactly one registered implementation and no
\* configured default, resolution with no explicit name succeeds and returns
\* an instance of that implementation.
C7_AsStated ==
    (Called /\ ret.asked = NoName /\ SoleCandidate) =>
        /\ ret.kind = "ok"
        /\ ret.inst # NoInst
        /\ plugins[client] = { ret.name }

\* C7 amended: with exactly one registered implementation and no configured
\* default, resolution with no explicit name (and, through get_parser, no
\* parser_mapping entry for the file type) selects that implementation; it
\* returns its cached instance unless constructing it raises, and then the
\* call raises that construction error, never PluginNotFoundError and never
\* the resolver's own ConfigurationError.
C7_SoleCandidateSelected ==
    (Called /\ ret.asked = NoName /\ SoleCandidate /\ ~Mapped) =>
        /\ plugins[client] = { ret.name }
        /\ ret.rung = "sole"
        /\ ret.ctor \in { "ok", "not_run" } =>
               /\ ret.kind = "ok"
               /\ ret.inst # NoInst
               /\ ret.inst = instances[client][ret.name]
        /\ ret.ctor \notin { "ok", "not_run" } =>
               /\ ret.kind \in ConstructionErrors
               /\ ret.inst = NoInst
               /\ instances[client][ret.name] = NoInst

\* C7 witness: the only registered plugin of a capability that has no
\* settings attribute is constructed and returned by get_plugin(name=None).
C7_Witness ==
    /\ client = "ocr_providers"
    /\ ret.op = "get_plugin"
    /\ ret.asked = NoName
    /\ SoleCandidate
    /\ ret.built
    /\ ret.kind = "ok"
    /\ ret.inst = instances[client][ret.name]

\* C8 as stated: with no registered implementation, resolution with no
\* explicit name raises a configuration error listing an empty candidate
\* set, also for the capabilities whose settings carry a default name.
C8_AsStated ==
    (Called /\ ret.asked = NoName /\ plugins[client] = {}) =>
        /\ ret.kind = "ConfigurationError"
        /\ ret.available = {}

\* C8 amended: with no registered implementation, resolution with no
\* explicit name raises a ConfigurationError listing an empty candidate set
\* when no default name is configured for the capability (and get_parser
\* finds no parser_mapping entry); when a default name is configured, or
\* parser_mapping names a parser, it raises PluginNotFoundError for that
\* name instead.  Nothing is constructed or returned either way.
C8_NoImplementation ==
    (Called /\ ret.asked = NoName /\ plugins[client] = {}) =>
        /\ ret.inst = NoInst
        /\ ~ret.built
        /\ IF Mapped \/ DefaultPluginName(client) # NoName
           THEN /\ ret.kind = "PluginNotFoundError"
                /\ ret.name # NoName
           ELSE /\ ret.kind = "ConfigurationError"
                /\ ret.available = {}
                /\ ret.name = NoName

\* C8 witness: a store capability with nothing registered and no configured
\* store name raises the ConfigurationError with an empty list.
C8_Witness ==
    /\ client = "vector_stores"
    /\ ret.op = "get_plugin"
    /\ ret.asked = NoName
    /\ plugins[client] = {}
    /\ DefaultPluginName(client) = NoName
    /\ ret.kind = "ConfigurationError"
    /\ ret.available = {}

\* C9 as stated: every successful call for one (capability, name) returns
\* the identical instance, the plugin class is constructed at most once per
\* key, and two names of one capability get distinct instances.
C9_AsStated ==
    /\ \A n \in Names : Cardinality(handed[n]) <= 1
    /\ \A n \in Names : Cardinality(made[client][n]) <= 1
    /\ handed["n1"] \cap handed["n2"] = {}

\* C9 amended: every successful call for one (capability, name) returns the
\* identical instance, which is the cached one; two names of one capability
\* get distinct instances; a call constructs the plugin class only while no
\* instance is cached for the key, so a key gets at most one successful
\* construction, and constructions that raised are repeated by later calls.
C9_CachedInstance ==
    /\ \A n \in Names :
           /\ Cardinality(handed[n]) <= 1
           /\ handed[n] = IF instances[client][n] = NoInst THEN {}
                          ELSE { instances[client][n] }
    /\ handed["n1"] \cap handed["n2"] = {}
    /\ (Called /\ ret.built) =>
           handed[ret.name] = IF ret.kind = "ok" THEN { ret.inst } ELSE {}

\* C9 witness: the second successful call for n1 returned the cached
\* instance without constructing; it is the only instance made for n1.
C9_Witness ==
    /\ ncalls >= 2
    /\ ret.kind = "ok"
    /\ ret.name = "n1"
    /\ ~ret.built
    /\ handed["n1"] = { ret.inst }
    /\ made[client]["n1"] = { ret.inst }

\* the exceptions a constructor raises that the except clause of
\* _get_instance re-raises as they are (isinstance check, lines 172-173)
ReRaised ==
    [ ctor_raises_config |-> "ConfigurationError",
      ctor_raises_plugin_config |-> "PluginConfigurationError" ]

\* the call reached _get_instance with a name that is not registered
NotRegistered == Called /\ ret.name # NoName /\ ret.name \notin plugins[client]

\* C11 as stated: a name that is not registered raises PluginNotFoundError
\* without constructing; a validate_config that raises gives
\* PluginConfigurationError; every other exception during construction
\* gives PluginLoadError.
C11_AsStated ==
    /\ NotRegistered => (ret.kind = "PluginNotFoundError" /\ ~ret.built)
    /\ ret.ctor = "validate_raises" => ret.kind = "PluginConfigurationError"
    /\ ret.ctor \in { "ctor_raises", "ctor_raises_config",
                      "ctor_raises_plugin_config" } =>
           ret.kind = "PluginLoadError"

\* C11 amended: a name that is not registered raises PluginNotFoundError
\* without constructing; a validate_config that raises gives
\* PluginConfigurationError, never PluginLoadError; a ConfigurationError or
\* PluginConfigurationError raised by the constructor is re-raised as it
\* is; every other exception of the constructor gives PluginLoadError; a
\* failed call returns no instance and caches none.
C11_ErrorTaxonomy ==
    /\ NotRegistered => (ret.kind = "PluginNotFoundError" /\ ~ret.built)
    /\ ret.kind = "PluginNotFoundError" => NotRegistered
    /\ ret.ctor = "validate_raises" => ret.kind = "PluginConfigurationError"
    /\ ret.ctor \in DOMAIN ReRaised => ret.kind = ReRaised[ret.ctor]
    /\ ret.ctor = "ctor_raises" => ret.kind = "PluginLoadError"
    /\ ret.kind = "PluginLoadError" => ret.ctor = "ctor_raises"
    /\ (Called /\ ret.kind # "ok") =>
           (ret.inst = NoInst /\ (ret.name # NoName => instances[client][ret.name] = NoInst))

\* C11 witness: the second call constructed a registered plugin whose
\* validate_config raised.
C11_Witness ==
    /\ ncalls = 2
    /\ ret.ctor = "validate_raises"
    /\ ret.kind = "PluginConfigurationError"
    /\ ret.name \in plugins[client]
    /\ made[client][ret.name] # {}

(***************************************************************************)
(* Properties of concurrent callers, under SpecThreads.                    *)
(***************************************************************************)
\* C10: when several threads call _get_instance for one (capability, name),
\* no interleaving yields two constructed instances for the key: any two
\* threads that constructed or returned an instance for the same name hold
\* the same instance.
C10_OneInstancePerKey ==
    \A t1, t2 \in Threads :
        (tname[t1] = tname[t2] /\ tinst[t1] # NoInst /\ tinst[t2] # NoInst) =>
            tinst[t1] = tinst[t2]

(***************************************************************************)
(* Properties of PdfParser.parse running magic-pdf, under SpecInvoker.     *)
(***************************************************************************)
\* _run_magic_pdf has returned or raised
Finished == ipc \in { "returned", "raised" }

\* the command fails on every launch but the last of its script
FailsThenSucceeds ==
    /\ script # << >>
    /\ script[Len(script)] = "exit0"
    /\ \A i \in 1..(Len(script) - 1) : script[i] # "exit0"

\* the command fails on every launch: non-zero exit or timeout
AlwaysFails == script # << >> /\ \A i \in 1..Len(script) : script[i] # "exit0"

\* C12: for a command whose first N-1 launches fail and whose N-th launch
\* succeeds (N the length of the script), an invocation that is not
\* cancelled ends in success after exactly N launches.
C12_RetrySuccess ==
    (FailsThenSucceeds /\ cancels = 0 /\ Finished) =>
        /\ ipc = "returned"
        /\ launches = Len(script)

\* C13: for a command that fails on each of the N launches allowed, an
\* invocation that is not cancelled makes exactly N launches and then raises
\* the execution error, and parse returns no Document.
C13_FailureSurfaced ==
    (AlwaysFails /\ cancels = 0 /\ Finished) =>
        /\ ipc = "raised"
        /\ pending = "MagicPdfExecutionError"
        /\ launches = Len(script)
        /\ presult \in { "none", "ParsingError" }

\* C14: when the wait timed out and the invoker, not cancelled, has raised
\* its error, the process was sent the termination signal and has exited.
C14_NoZombie ==
    (ipc = "raised" /\ timedOut /\ cancels = 0) =>
        /\ process.terminated
        /\ process.state = "exited"

\* C15: once the coroutine was cancelled after the launch, it leaves with
\* CancelledError only (never success, never the execution error, and
\* parse raises CancelledError too); from the except clause on, a process
\* that is still running has been sent the termination signal; and both
\* tasks are done when the CancelledError leaves the coroutine.
C15_Cancellation ==
    /\ (cancels > 0 /\ ipc \in { "cancel_gather", "finally", "returned", "raised" }) =>
           pending = "CancelledError"
    /\ (pending = "CancelledError" /\ process.state = "running") =>
           process.terminated
    /\ (ipc = "raised" /\ pending = "CancelledError") => Done(tasks)
    /\ (cancels > 0 /\ presult # "none") => presult = "CancelledError"

\* C15 witness: cancelled once while the process was running and before any
\* timeout; the process was terminated and has exited, a task was
\* cancelled, and the CancelledError has left the coroutine.
C15_Witness ==
    /\ ipc = "raised"
    /\ cancels = 1
    /\ ~timedOut
    /\ pending = "CancelledError"
    /\ process.terminated
    /\ process.state = "exited"
    /\ \E st \in Streams : tasks[st] = "cancelled"

\* C16 as stated: both tasks are done when the attempt returns or raises,
\* and the attempt is successful only when both tasks reached end of stream
\* and the process exited with code 0.
C16_AsStated ==
    /\ Finished => Done(tasks)
    /\ pending = "success" =>
           /\ \A st \in Streams : tasks[st] = "eof"
           /\ process.state = "exited"
           /\ process.returncode = 0

\* C16 amended: both tasks are done when the attempt returns or raises, and
\* the attempt is successful only when both tasks have completed, each at
\* end of stream or after a read error that ended it, and the process
\* exited with code 0.
C16_DrainCompletion ==
    /\ Finished => Done(tasks)
    /\ pending = "success" =>
           /\ \A st \in Streams : tasks[st] \in { "eof", "error" }
           /\ process.state = "exited"
           /\ process.returncode = 0

\* C16 witness: the attempt returned successfully after both tasks reached
\* end of stream.
C16_Witness ==
    /\ ipc = "returned"
    /\ \A st \in Streams : tasks[st] = "eof"
    /\ process.returncode = 0

(***************************************************************************)
(* Properties of the stages of IngestionWorkflow.run, under Spec.          *)
(***************************************************************************)
\* the stage a call of run belongs to
Stage(call) ==
    CASE call \in { "get_parser", "parse" } -> 1
      [] call \in { "get_chunker", "chunk" } -> 2
      [] call \in { "get_embedder", "embed" } -> 3
      [] call \in { "get_analyzer", "analyze" } -> 4
      [] call \in VectorStoreCalls -> 5
      [] call \in StructuredStoreCalls -> 6
      [] call \in DocumentStoreCalls -> 7

\* the calls on plugins, as opposed to the calls on the PluginManager
PluginCalls ==
    { "parse", "chunk", "embed", "analyze", "add_embeddings", "save_batch", "save" }

\* stages are entered in the fixed order, and inside a stage the plugin is
\* resolved before it is called
InOrder ==
    \A i, j \in 1..Len(trace) :
        i < j =>
            /\ Stage(trace[i].call) <= Stage(trace[j].call)
            /\ (Stage(trace[i].call) = Stage(trace[j].call)
                  /\ trace[i].call \in PluginCalls) =>
                   trace[j].call \in PluginCalls

\* no stage is entered twice: a call occurs once, but for the resolution and
\* the call of each analyzer, and save_batch of the entities followed by
\* save_batch of the relationships
NoStageTwice ==
    \A i, j \in 1..Len(trace) :
        (i < j /\ trace[i].call = trace[j].call) =>
            \/ trace[i].call \in { "get_analyzer", "analyze" }
            \/ /\ trace[i].call = "save_batch"
               /\ trace[i].what = "entities"
               /\ trace[j].what = "relationships"

\* the analyzers are resolved once each in the configured order, the ones
\* get_enabled_analyzers returned are called once each in that order, and
\* all of them have been called when a later stage is reached
AnalyzersInOrder ==
    LET got == SelectSeq(trace, LAMBDA e : e.call = "get_analyzer")
    IN  /\ Len(got) <= Len(settings["enabled_analyzers"])
        /\ \A k \in 1..Len(got) : got[k].who = settings["enabled_analyzers"][k]
        /\ Len(AnalyzeCalls) <= Len(analyzers)
        /\ \A k \in 1..Len(AnalyzeCalls) : AnalyzeCalls[k].who = analyzers[k]
        /\ (args.run_analysis
              /\ pc \in { "persist_vectors", "persist_structured",
                          "persist_document", "returned" }) =>
               Len(AnalyzeCalls) = Len(analyzers)

\* a failure after which run goes on: an enabled analyzer that is not
\* registered, an analyzer that raised, the structured store
NonFatal(e) ==
    \/ e.call \in { "analyze", "get_structured_store", "save_batch" }
    \/ e.call = "get_analyzer" /\ e.what = "PluginNotFoundError"

\* C17 as stated: the calls occur in the fixed order of the stages, no stage
\* is entered twice, the analyzers are called once each in the configured
\* order, and a stage starts only after every call of the earlier stages
\* returned successfully.
C17_AsStated ==
    /\ InOrder
    /\ NoStageTwice
    /\ AnalyzersInOrder
    /\ \A i, j \in 1..Len(trace) :
           (i < j /\ Stage(trace[i].call) < Stage(trace[j].call)) => trace[i].ok

\* C17 amended: the calls occur in the fixed order of the stages, no stage is
\* entered twice, the analyzers are called once each in the configured
\* order, and a stage starts only after every call of the earlier stages
\* returned successfully or failed without ending the run (an enabled
\* analyzer that is not registered, an analyzer that raised, a failure of
\* the structured store).
C17_SequentialStages ==
    /\ InOrder
    /\ NoStageTwice
    /\ AnalyzersInOrder
    /\ \A i, j \in 1..Len(trace) :
           (i < j /\ Stage(trace[i].call) < Stage(trace[j].call)) =>
               (trace[i].ok \/ NonFatal(trace[i]))

\* C17 witness: a run that went through every stage and returned: both
\* analyzers were called, the first raised, and the vector store, the
\* structured store and the document store were called after them.
C17_Witness ==
    /\ pc = "returned"
    /\ Len(AnalyzeCalls) = 2
    /\ ~AnalyzeCalls[1].ok
    /\ \E i, j, k \in 1..Len(trace) :
           /\ i < j
           /\ j < k
           /\ trace[i].call = "add_embeddings"
           /\ trace[j].call = "save_batch"
           /\ trace[k].call = "save"

\* the exception run raises when a call of a fatal stage fails
FatalError ==
    [ get_parser |-> "ParsingError", parse |-> "ParsingError",
      get_chunker |-> "WorkflowError", chunk |-> "WorkflowError",
      get_embedder |-> "EmbeddingError", embed |-> "EmbeddingError",
      get_vector_store |-> "StorageError", add_embeddings |-> "StorageError",
      get_document_store |-> "StorageError", save |-> "StorageError" ]

\* C18: when resolving or calling the parser, the chunker, the embedder, the
\* vector store or the document store fails, that is the last call of the
\* run, and run raises the error of the stage: ParsingError, WorkflowError,
\* EmbeddingError, StorageError; it does not return the document.
C18_FatalStageFailures ==
    \A i \in 1..Len(trace) :
        (trace[i].call \in DOMAIN FatalError /\ ~trace[i].ok) =>
            /\ i = Len(trace)
            /\ pc = "raised"
            /\ error = FatalError[trace[i].call]

\* C18 witness: chunker.chunk raised after a successful parse, and run
\* raised WorkflowError.
C18_Witness ==
    /\ LastFailed({ "chunk" })
    /\ Len(trace) = 4
    /\ pc = "raised"
    /\ error = "WorkflowError"

\* run is to persist neither the document nor the chunks
NoPersist == ~args.save_document /\ ~args.save_chunks

\* chunker.chunk has returned
ChunkOk == \E i \in 1..Len(trace) : trace[i].call = "chunk" /\ trace[i].ok

EmbedderCalls == { "get_embedder", "embed" }

\* C19 as stated: once parse and chunk succeeded in a run with
\* save_document=False and save_chunks=False, run neither resolves nor calls
\* the embedder or any store, and it does not raise.
C19_AsStated ==
    (NoPersist /\ ChunkOk) =>
        /\ \A i \in 1..Len(trace) :
               trace[i].call \notin PersistenceCalls \cup EmbedderCalls
        /\ pc # "raised"

\* C19 amended: once parse and chunk succeeded in a run with
\* save_document=False and save_chunks=False, run neither resolves nor calls
\* the embedder, the vector store or the document store; it resolves the
\* structured store only with run_analysis=True and entities or
\* relationships on the document, and a failure there is only logged; and
\* it raises only when run_analysis=True and resolving an enabled analyzer
\* raised an error other than PluginNotFoundError.
C19_ResultWithoutPersistence ==
    (NoPersist /\ ChunkOk) =>
        /\ \A i \in 1..Len(trace) :
               trace[i].call \notin
                   VectorStoreCalls \cup DocumentStoreCalls \cup EmbedderCalls
        /\ (\E i \in 1..Len(trace) : trace[i].call \in StructuredStoreCalls) =>
               /\ args.run_analysis
               /\ doc.entities # << >> \/ doc.relationships > 0
        /\ pc = "raised" =>
               /\ args.run_analysis
               /\ LastFailed({ "get_analyzer" })
               /\ error = trace[Len(trace)].what
               /\ error # "PluginNotFoundError"

\* C19 witness: no embedder and no store is registered; run resolved the
\* structured store in vain and returned the document.
C19_Witness ==
    /\ NoPersist
    /\ pc = "returned"
    /\ \A c \in { "embedders", "vector_stores", "structured_stores",
                  "document_stores" } : plugins[c] = {}
    /\ LastFailed({ "get_structured_store" })
    /\ Len(doc.chunks) > 0

ResolutionCalls ==
    { "get_parser", "get_chunker", "get_embedder", "get_analyzer",
      "get_vector_store", "get_structured_store", "get_document_store" }

\* C20 as stated: a failed resolution is the last call of the run, and run
\* raises.
C20_AsStated ==
    \A i \in 1..Len(trace) :
        (trace[i].call \in ResolutionCalls /\ ~trace[i].ok) =>
            /\ i = Len(trace)
            /\ pc = "raised"

\* C20 amended: a failed resolution of the parser, the chunker, the
\* embedder, the vector store or the document store is the last call of the
\* run, which raises the error of the stage; a failed resolution of an
\* enabled analyzer other than PluginNotFoundError is the last call and is
\* raised as it is; an enabled analyzer that is not registered is ignored
\* and a failed resolution of the structured store is only logged: run goes
\* on after both.
C20_ResolutionErrors ==
    \A i \in 1..Len(trace) :
        (trace[i].call \in ResolutionCalls /\ ~trace[i].ok) =>
            IF NonFatal(trace[i])
            THEN i = Len(trace) => pc # "raised"
            ELSE /\ i = Len(trace)
                 /\ pc = "raised"
                 /\ error = IF trace[i].call = "get_analyzer" THEN trace[i].what
                            ELSE FatalError[trace[i].call]

\* C20 witness: the first enabled analyzer is not registered and was
\* ignored; constructing the second raised, and run raised PluginLoadError.
C20_Witness ==
    /\ pc = "raised"
    /\ error = "PluginLoadError"
    /\ Len(trace) >= 2
    /\ trace[Len(trace)].call = "get_analyzer"
    /\ trace[Len(trace) - 1].call = "get_analyzer"
    /\ trace[Len(trace) - 1].what = "PluginNotFoundError"


(***************************************************************************)
(* Properties of the analysis results and of the document after            *)
(* persistence, under Spec.                                                *)
(***************************************************************************)

\* C21: the result of an analyzer is appended to document.entities only
\* when its analysis_type is "entity_extraction" (and it is a list); the
\* result of any other analysis_type is discarded: the step of the loop
\* leaves the whole document as it was, does not make run raise and goes on
\* with the next analyzer.
C21_ClosedRouting ==
    [][ (Len(trace') = Len(trace) + 1 /\ trace'[Len(trace')].call = "analyze") =>
            LET e == trace'[Len(trace')]
            IN  /\ doc' = IF e.what = "entities"
                          THEN [ doc EXCEPT !.entities = Append(@, e.who) ]
                          ELSE doc
                /\ e.what # "raises" =>
                       /\ pc' = "analyze"
                       /\ error' = error
                       /\ idx' = idx + 1 ]_vars

\* C21 witness: the first analyzer returned a result of another
\* analysis_type, the second a list of entities; only the second is in
\* document.entities and run returned.
C21_Witness ==
    /\ pc = "returned"
    /\ Len(AnalyzeCalls) = 2
    /\ AnalyzeCalls[1].what = "other_type"
    /\ AnalyzeCalls[2].what = "entities"
    /\ doc.entities = << AnalyzeCalls[2].who >>

\* the calls of a store that persist something
StoreCalls == { "add_embeddings", "save_batch", "save" }

\* a store was called
Persisting == \E i \in 1..Len(trace) : trace[i].call \in StoreCalls

\* C25: once the first call of a store was made (add_embeddings, save_batch
\* or save), no step of run changes the document, its chunks, its entities
\* or its relationships; the step that makes the first call does not change
\* them either.
C25_NoMutationAfterPersistence ==
    [][ (Persisting \/ Persisting') => doc' = doc ]_vars

\* C25 witness: the three stores were called on a document with embedded
\* chunks and entities, and run returned.
C25_Witness ==
    /\ pc = "returned"
    /\ \A c \in StoreCalls : \E i \in 1..Len(trace) : trace[i].call = c /\ trace[i].ok
    /\ doc.chunks # << >>
    /\ \A i \in 1..Len(doc.chunks) : doc.chunks[i] # NoVec
    /\ doc.entities # << >>

(***************************************************************************)
(* Properties of failed constructions and of names that are not            *)
(* registered, under SpecResolver.                                         *)
(***************************************************************************)

\* a step that is one call of the resolver
ResolverCall == ncalls' = ncalls + 1

\* C28: a call whose construction failed (the constructor or
\* validate_config raised) leaves self._instances and self._plugins as they
\* were and hands out nothing; the next call for the same name constructs
\* again, and the instance it returns is not one that was made before.
C28_FailedConstructionNotCached ==
    [][ ResolverCall =>
            /\ (ret'.built /\ ret'.kind # "ok") =>
                   /\ instances' = instances
                   /\ plugins' = plugins
                   /\ handed' = handed
                   /\ ret'.inst = NoInst
            /\ (ret.built /\ ret.kind # "ok" /\ ret'.name = ret.name) =>
                   /\ ret'.built
                   /\ ret'.kind = "ok" => ret'.inst \notin made[client][ret.name] ]_vars

\* C28 witness: validate_config rejected the first instance of a name; the
\* second call for the name made another instance, which is the one stored
\* and returned.
C28_Witness ==
    /\ ncalls = 2
    /\ ret.kind = "ok"
    /\ ret.built
    /\ Cardinality(made[client][ret.name]) = 2
    /\ instances[client][ret.name] = ret.inst
    /\ handed[ret.name] = { ret.inst }

\* the name the file-type mapping or the configured default gives to a call
\* without an explicit name
ChosenName ==
    IF Mapped /\ MappingGet(Normalize(ret.file_type)) # NoName
    THEN MappingGet(Normalize(ret.file_type))
    ELSE DefaultPluginName(client)

\* C29: without an explicit name, when the name the file-type mapping or
\* the configured default gives is not registered, the call raises
\* PluginNotFoundError for that name and constructs nothing; it does not go
\* on to another rung, even when exactly one plugin is registered.
C29_NoFallThrough ==
    (Called /\ ret.asked = NoName /\ ChosenName # NoName
            /\ ChosenName \notin plugins[client]) =>
        /\ ret.kind = "PluginNotFoundError"
        /\ ret.name = ChosenName
        /\ ret.inst = NoInst
        /\ ~ret.built

\* C29 witness: the configured default is not registered and exactly one
\* other plugin is; the call raised PluginNotFoundError.
C29_Witness ==
    /\ Called
    /\ ret.asked = NoName
    /\ ~Mapped
    /\ ChosenName # NoName
    /\ ChosenName \notin plugins[client]
    /\ Cardinality(plugins[client]) = 1
    /\ ret.kind = "PluginNotFoundError"

(***************************************************************************)
(* Termination of the invoker, under SpecInvokerFair.                      *)
(***************************************************************************)

\* C30: every invocation of magic-pdf eventually returns or raises,
\* whatever the child process does (also when it never exits by itself and
\* ignores SIGTERM), on the timeout path and on the cancellation path.
C30_AlwaysFinishes == <>Finished

(***************************************************************************)
(* Property of plugin discovery, under SpecLoader.                         *)
(***************************************************************************)

\* the names of the entry points of a group that load and are subclasses of
\* the interface of the group
Loadable(c) ==
    { eps[c].list[i].name :
        i \in { j \in 1..Len(eps[c].list) : eps[c].list[j].kind = "ok" } }

\* C22: _load_all_plugins never raises because of an entry point that
\* fails to load or does not implement the interface of its group; such an
\* entry point is never registered, and when _load_all_plugins is done the
\* registered names of every group are exactly the names of its entry
\* points that load and implement the interface.
C22_RegistrationIsolation ==
    /\ lpc # "raised"
    /\ \A c \in Capabilities : plugins[c] \subseteq Loadable(c)
    /\ lpc = "done" => \A c \in Capabilities : plugins[c] = Loadable(c)

\* C22 witness: in the first group an entry point that raises comes before
\* one that loads, in the second group one of another interface comes
\* before one that loads; both loadable ones, and nothing else, are
\* registered.
C22_Witness ==
    /\ lpc = "done"
    /\ Len(eps[GroupOrder[1]].list) = 2
    /\ eps[GroupOrder[1]].list[1].kind = "raises"
    /\ eps[GroupOrder[1]].list[2].kind = "ok"
    /\ Len(eps[GroupOrder[2]].list) = 2
    /\ eps[GroupOrder[2]].list[1].kind = "wrong_interface"
    /\ eps[GroupOrder[2]].list[2].kind = "ok"
    /\ plugins[GroupOrder[1]] = { eps[GroupOrder[1]].list[2].name }
    /\ plugins[GroupOrder[2]] = { eps[GroupOrder[2]].list[2].name }

(***************************************************************************)
(* Properties of StructuredContent, under SpecTree.                        *)
(***************************************************************************)

\* the objects in the children list of p
ChildSet(p) == { children[p][i] : i \in 1..Len(children[p]) }

\* the places c has in the children lists
Places(c) ==
    { pl \in Nodes \X (1..MaxOps) :
        pl[2] <= Len(children[pl[1]]) /\ children[pl[1]][pl[2]] = c }

\* the objects reached from those of S by at most k steps to a child
RECURSIVE Below(_, _)
Below(S, k) ==
    IF k = 0 THEN S
    ELSE Below(S \cup UNION { ChildSet(n) : n \in S }, k - 1)

\* the children of n, their children, and so on
Descendants(n) == Below(ChildSet(n), Cardinality(Nodes))

\* every object of a children list points back to the owner of the list
ParentLinked ==
    \A p \in Nodes : \A c \in ChildSet(p) :
        parent[c] = p /\ parent_id[c] = p

\* C23: after any sequence of add_child and remove_child, every object in
\* the children list of p has p as its parent and the id of p as its
\* parent_id; and an object remove_child took out of a list has parent and
\* parent_id None.
C23_ParentLink ==
    [][ /\ ParentLinked'
        /\ \A c \in Nodes :
               Cardinality(Places(c)') < Cardinality(Places(c)) =>
                   (parent'[c] = None /\ parent_id'[c] = None) ]_vars

\* C24: after any sequence of add_child and remove_child, every object is
\* in the children list of at most one object and at most once, and no
\* object is its own descendant.
C24_Tree ==
    /\ \A c \in Nodes : Cardinality(Places(c)) <= 1
    /\ \A n \in Nodes : n \notin Descendants(n)

\* the objects under root form a tree: none is reached twice
IsTree(root) ==
    /\ root \notin Descendants(root)
    /\ \A c \in Descendants(root) : Cardinality(Places(c)) = 1

\* C27: on a tree, root.get_content_by_catalogue(id) returns the content
\* of the object of the tree whose id is the argument, whatever that content
\* is and at any depth, and None when the tree has no such object.
C27_Lookup ==
    (lookup.called /\ IsTree(lookup.root)) =>
        lookup.result =
            IF lookup.id \in { lookup.root } \cup Descendants(lookup.root)
            THEN content[lookup.id]
            ELSE None

(***************************************************************************)
(* Property of the segmentation of chunks, under SpecSegment.              *)
(***************************************************************************)

\* the order_index values of the sub-chunks of the chunk with order_index p
SubIndexes(p) ==
    { subs[p].chunks[i].order_index : i \in 1..Len(subs[p].chunks) }

\* C26: the sub-chunks of one chunk have strictly increasing order_index
\* and the doc_id of the chunk, and no two sub-chunks of the document, of
\* one chunk or of two, have the same order_index, however many sub-chunks
\* a chunk gives.
C26_OrderIndexUnique ==
    /\ \A chunk \in parents :
           LET list == subs[chunk.order_index].chunks
           IN  /\ \A i \in 1..Len(list) : list[i].doc_id = chunk.doc_id
               /\ \A i \in 1..(Len(list) - 1) :
                      list[i].order_index < list[i + 1].order_index
    /\ \A p \in DOMAIN subs, q \in DOMAIN subs :
           p # q => SubIndexes(p) \cap SubIndexes(q) = {}

=============================================================================
